---- MODULE Spec2Model ----
(***************************************************************************)
(* Delphi document-chunking pipeline: the SQS worker                       *)
(* (delphi_chunk_processor.py), the upload handler that enqueues its jobs  *)
(* (delphi_vault_file.py) and the two DynamoDB tables they share.          *)
(*                                                                         *)
(* Text is a sequence of one-character strings, so that len(), slicing,    *)
(* strip() and join() are computed as Python computes them.                *)
(***************************************************************************)
EXTENDS Integers, Sequences, FiniteSets, TLC

\* ------------------------------------------------------------ bounds
MaxUploads == 1          \* upload requests in one behaviour
MaxForeign == 1          \* queue messages not produced by upload_file
MaxReceive == 2          \* deliveries of one message before it is dead-lettered
TextractMaxWait == 12    \* TEXTRACT_MAX_WAIT as configured (the default is 600)
MaxJitter == 1           \* extra time one poll iteration may take beyond the sleep
MaxBatch == 2            \* records in one invocation's event
MaxOutages == 1          \* periods in which writes to JOBS_TABLE fail

\* ------------------------------------------------------------ program constants
PollSleep == 5           \* time.sleep(5)
HeartbeatGap == 15       \* (now - last_progress_update_ts) > 15
DefaultChunkSize == 800
DefaultOverlap == 100
MessageLimit == 1000     \* str(message)[:1000]
Epoch == 1000            \* time.time() when the poll loop starts: any value > HeartbeatGap

\* ------------------------------------------------------------ text helpers
Ws == {" ", "\n", "\t"}

RECURSIVE LStrip(_)
LStrip(s) == IF s # <<>> /\ Head(s) \in Ws THEN LStrip(Tail(s)) ELSE s

RECURSIVE RStrip(_)
RStrip(s) == IF s # <<>> /\ s[Len(s)] \in Ws THEN RStrip(SubSeq(s, 1, Len(s) - 1)) ELSE s

\* str.strip()
Strip(s) == RStrip(LStrip(s))

\* s[-n:] for n > 0
LastChars(s, n) == IF n >= Len(s) THEN s ELSE SubSeq(s, Len(s) - n + 1, Len(s))

\* s[:n]
FirstChars(s, n) == IF n >= Len(s) THEN s ELSE SubSeq(s, 1, n)

\* sorted(list(a set of page numbers))
RECURSIVE SortedList(_)
SortedList(S) ==
    IF S = {} THEN <<>>
    ELSE LET m == CHOOSE x \in S : \A y \in S : x <= y
         IN <<m>> \o SortedList(S \ {m})

\* sep.join(parts)
RECURSIVE Join(_, _)
Join(sep, parts) ==
    IF parts = <<>> THEN <<>>
    ELSE IF Len(parts) = 1 THEN parts[1]
    ELSE parts[1] \o sep \o Join(sep, Tail(parts))

\* ------------------------------------------------------------ naive chunker
CloseChunk(acc) ==
    [text  |-> Strip(acc.current_chunk),
     start |-> acc.char_count,
     end   |-> acc.char_count + Len(acc.current_chunk),
     pages |-> SortedList(acc.current_pages)]

\* a line that does not fit is left out of the new chunk
ChunkLineDropping(acc, line, chunk_size, overlap) ==
    IF Len(acc.current_chunk) + Len(line.text) + 1 > chunk_size
    THEN [chunks        |-> Append(acc.chunks, CloseChunk(acc)),
          current_chunk |-> IF overlap > 0 THEN LStrip(LastChars(acc.current_chunk, overlap))
                            ELSE <<>>,
          current_pages |-> {line.page},
          char_count    |-> acc.char_count]
    ELSE [acc EXCEPT !.current_chunk = Strip(@ \o <<" ">> \o line.text),
                     !.current_pages = @ \cup {line.page}]

\* nothing is carried over from the chunk that was closed
ChunkLineNoCarry(acc, line, chunk_size, overlap) ==
    IF Len(acc.current_chunk) + Len(line.text) + 1 > chunk_size
    THEN [chunks        |-> Append(acc.chunks, CloseChunk(acc)),
          current_chunk |-> Strip(line.text),
          current_pages |-> {line.page},
          char_count    |-> acc.char_count + Len(acc.current_chunk)]
    ELSE [acc EXCEPT !.current_chunk = Strip(@ \o <<" ">> \o line.text),
                     !.current_pages = @ \cup {line.page}]

\* one iteration of "for line in lines"
ChunkLine(acc, line, chunk_size, overlap) ==
    IF Len(acc.current_chunk) + Len(line.text) + 1 > chunk_size
    THEN LET end_idx == acc.char_count + Len(acc.current_chunk)
             overlap_text == IF overlap > 0 THEN LastChars(acc.current_chunk, overlap)
                             ELSE <<>>
         IN [chunks        |-> Append(acc.chunks, CloseChunk(acc)),
             current_chunk |-> Strip(overlap_text \o <<" ">> \o line.text),
             current_pages |-> {line.page},
             char_count    |-> end_idx - Len(overlap_text)]
    ELSE [acc EXCEPT !.current_chunk = Strip(@ \o <<" ">> \o line.text),
                     !.current_pages = @ \cup {line.page}]

RECURSIVE ChunkLoop(_, _, _, _)
ChunkLoop(acc, lines, chunk_size, overlap) ==
    IF lines = <<>> THEN acc
    ELSE ChunkLoop(ChunkLine(acc, Head(lines), chunk_size, overlap),
                   Tail(lines), chunk_size, overlap)

chunk_text_with_offsets(lines, chunk_size, overlap) ==
    LET acc == ChunkLoop([chunks |-> <<>>, current_chunk |-> <<>>,
                          current_pages |-> {}, char_count |-> 0],
                         lines, chunk_size, overlap)
    IN IF acc.current_chunk # <<>> THEN Append(acc.chunks, CloseChunk(acc))
       ELSE acc.chunks

\* ------------------------------------------------------------ agentic chunker
PromptTextLimit == 20000     \* full_text[:20000]
NaivePropositionCap == 1000  \* naive[:1000]
ClusterSampleCap == 200      \* propositions[:200]

\* d.get(k) for a text field: an absent key, None and "" are all falsy, and are all <<>> here
Get(d, k) == IF k \in DOMAIN d THEN d[k] ELSE <<>>
Truthy(v) == v # <<>>

\* str.splitlines() for text whose only line break is "\n"
RECURSIVE SplitLines(_, _)
SplitLines(s, cur) ==
    IF s = <<>> THEN (IF cur = <<>> THEN <<>> ELSE <<cur>>)
    ELSE IF Head(s) = "\n" THEN <<cur>> \o SplitLines(Tail(s), <<>>)
    ELSE SplitLines(Tail(s), Append(cur, Head(s)))

\* re.split(r"(?<=[.!?])\s+", line): cut at each run of whitespace that follows . ! or ?
RECURSIVE SentenceSplit(_, _)
SentenceSplit(s, cur) ==
    IF s = <<>> THEN <<cur>>
    ELSE IF Head(s) \in Ws /\ cur # <<>> /\ cur[Len(cur)] \in {".", "!", "?"}
         THEN <<cur>> \o SentenceSplit(LStrip(s), <<>>)
         ELSE SentenceSplit(Tail(s), Append(cur, Head(s)))

\* [p.strip() for p in parts if p.strip()]
RECURSIVE StripNonEmpty(_)
StripNonEmpty(parts) ==
    IF parts = <<>> THEN <<>>
    ELSE (IF Strip(Head(parts)) # <<>> THEN <<Strip(Head(parts))>> ELSE <<>>)
         \o StripNonEmpty(Tail(parts))

\* the "for line in full_text.splitlines()" loop of the naive sentence splitter
RECURSIVE NaiveSentences(_)
NaiveSentences(text_lines) ==
    IF text_lines = <<>> THEN <<>>
    ELSE StripNonEmpty(SentenceSplit(Head(text_lines), <<>>)) \o NaiveSentences(Tail(text_lines))

\* the seen/result loop: first occurrences, in order
RECURSIVE Dedup(_, _)
Dedup(seq, seen) ==
    IF seq = <<>> THEN <<>>
    ELSE IF Head(seq) \in seen THEN Dedup(Tail(seq), seen)
    ELSE <<Head(seq)>> \o Dedup(Tail(seq), seen \cup {Head(seq)})

\* A language-model call ends in one of these kinds: "denied" (AccessDenied,
\* re-raised as PermissionError), "error" (any other exception), "garbage" (a
\* reply that _safe_json_loads cannot turn into the expected object), or "ok"
\* with the parsed list in value.
Denied == [kind |-> "denied", value |-> <<>>]
OtherError == [kind |-> "error", value |-> <<>>]
Garbage == [kind |-> "garbage", value |-> <<>>]
Reply(v) == [kind |-> "ok", value |-> v]

\* what extract_propositions_from_text puts in the request: the prompt is built
\* from full_text before the text is cut to PromptTextLimit
ExtractionPromptText(full_text) == full_text

extract_propositions_from_text(full_text, reply) ==
    LET cut == FirstChars(full_text, PromptTextLimit)
        result == IF reply.kind # "ok" THEN <<>> ELSE Dedup(StripNonEmpty(reply.value), {})
    IN IF result # <<>> THEN result
       ELSE FirstChars(NaiveSentences(SplitLines(cut, <<>>)), NaivePropositionCap)

\* the "for i, ch in enumerate(chunks)" loop
RECURSIVE ValidClusters(_, _)
ValidClusters(chunks, i) ==
    IF chunks = <<>> THEN <<>>
    ELSE LET ch == Head(chunks)
             title == IF Truthy(Get(ch, "title")) THEN Strip(ch.title) ELSE <<"Chunk ", ToString(i + 1)>>
             props == StripNonEmpty(IF Truthy(Get(ch, "propositions")) THEN ch.propositions
                                    ELSE <<>>)
         IN (IF props = <<>> THEN <<>>
             ELSE << [chunk_id |-> IF Truthy(Get(ch, "chunk_id")) THEN ch.chunk_id
                                   ELSE <<"c", ToString(i + 1)>>,
                      title |-> title,
                      summary |-> IF Truthy(Get(ch, "summary")) THEN Strip(ch.summary)
                                  ELSE title,
                      propositions |-> props] >>)
            \o ValidClusters(Tail(chunks), i + 1)

\* called only with a non-empty list and a reply that is not an exception
cluster_propositions_agentically(propositions, reply) ==
    LET result == IF reply.kind # "ok" THEN <<>> ELSE ValidClusters(reply.value, 0)
    IN IF result # <<>> THEN result
       ELSE << [chunk_id |-> <<"c0001">>, title |-> <<"General">>,
                summary |-> <<"General related content">>,
                propositions |-> propositions] >>

\* the "for ch in clusters" loop of agentic_chunk_text
RECURSIVE ClusterChunks(_)
ClusterChunks(clusters) ==
    IF clusters = <<>> THEN <<>>
    ELSE LET ch == Head(clusters)
             text == Join(<<".", " ">>, ch.propositions)
         IN (IF text = <<>> THEN <<>>
             ELSE << [text |-> text, title |-> ch.title, summary |-> ch.summary,
                      chunk_id |-> ch.chunk_id] >>)
            \o ClusterChunks(Tail(clusters))

\* [l.text for l in lines if l and l.get("text")]
RECURSIVE LineTexts(_)
LineTexts(lines) ==
    IF lines = <<>> THEN <<>>
    ELSE (IF Head(lines).text # <<>> THEN <<Head(lines).text>> ELSE <<>>)
         \o LineTexts(Tail(lines))

\* [{"text": t, "page": 1} for t in full_text.splitlines() if t.strip()]
RECURSIVE PageOneLines(_)
PageOneLines(texts) ==
    IF texts = <<>> THEN <<>>
    ELSE (IF Strip(Head(texts)) # <<>> THEN << [text |-> Head(texts), page |-> 1] >> ELSE <<>>)
         \o PageOneLines(Tail(texts))

FullText(lines) == Join(<<"\n">>, LineTexts(lines))

\* The call of cluster_propositions_agentically is made only for a non-empty
\* proposition list; r2 is the clustering call's outcome when it is made.
\* Result: [raised |-> TRUE] for a PermissionError, else the chunk list; calls is
\* the number of language-model calls made.
AgenticPropositions(lines, r1) ==
    IF r1.kind = "error" THEN <<>>
    ELSE extract_propositions_from_text(FullText(lines), r1)

\* a PermissionError is handled as every other exception of the stage
agentic_chunk_text_swallowing(lines, r1, r2) ==
    LET propositions == IF r1.kind \in {"error", "denied"} THEN <<>>
                        ELSE extract_propositions_from_text(FullText(lines), r1)
        clusters == IF propositions = <<>> \/ r2.kind \in {"error", "denied"} THEN <<>>
                    ELSE cluster_propositions_agentically(propositions, r2)
        chunks == ClusterChunks(clusters)
    IN [raised |-> FALSE,
        calls |-> IF propositions = <<>> THEN 1 ELSE 2,
        chunks |-> IF chunks = <<>>
                   THEN chunk_text_with_offsets(
                            PageOneLines(SplitLines(FullText(lines), <<>>)),
                            DefaultChunkSize, DefaultOverlap)
                   ELSE chunks]

agentic_chunk_text(lines, r1, r2) ==
    LET full_text == FullText(lines)
        propositions == AgenticPropositions(lines, r1)
        clusters == IF propositions = <<>> \/ r2.kind = "error" THEN <<>>
                    ELSE cluster_propositions_agentically(propositions, r2)
        chunks == ClusterChunks(clusters)
    IN IF r1.kind = "denied" THEN [raised |-> TRUE, chunks |-> <<>>, calls |-> 1]
       ELSE IF propositions # <<>> /\ r2.kind = "denied"
       THEN [raised |-> TRUE, chunks |-> <<>>, calls |-> 2]
       ELSE [raised |-> FALSE,
             calls |-> IF propositions = <<>> THEN 1 ELSE 2,
             chunks |-> IF chunks = <<>>
                        THEN chunk_text_with_offsets(
                                 PageOneLines(SplitLines(full_text, <<>>)),
                                 DefaultChunkSize, DefaultOverlap)
                        ELSE chunks]

\* ------------------------------------------------------------ the environment
Workers == {"w1", "w2"}
Keys == {"a.pdf"}
NoJob == 0        \* job_id not bound / not in the message
NoKey == ""       \* bucket or key missing from the message

T(str) == <<str>>   \* a short text written as one symbol

\* What Textract answers for a document: the result pages of
\* get_document_text_detection, each a list of blocks (Page 0: no "Page" key).
Block(type, text, page) == [BlockType |-> type, Text |-> text, Page |-> page]
Documents ==
    { << <<Block("PAGE", <<>>, 1)>> >>,
      << <<Block("PAGE", <<>>, 1), Block("LINE", <<"H", "i", ".">>, 1),
           Block("WORD", <<"H", "i", ".">>, 1)>> >>,
      << <<Block("LINE", <<"A", ".", " ", "B", ".">>, 1)>>,
         <<Block("LINE", <<"C", "!">>, 0), Block("LINE", <<"A", ".">>, 2)>> >> }

\* replies the language model may give to the proposition-extraction call
ExtractReplies ==
    {Denied, OtherError, Garbage,
     Reply(<< <<"p">>, <<"p">>, <<"q", " ">> >>)}

\* replies it may give to the clustering call for these propositions
ClusterReplies(propositions) ==
    {Denied, OtherError, Garbage,
     Reply(<< [title |-> <<"T">>, propositions |-> <<>>] >>),
     Reply(<< [chunk_id |-> <<"k", "1">>, title |-> <<"T">>, summary |-> <<"S">>,
               propositions |-> <<propositions[1]>>],
              [propositions |-> propositions] >>)}

ReplyKinds == {"denied", "error", "garbage", "ok"}

\* exceptions, by the text of str(e)
ErrBadJson == T("JSONDecodeError")
ErrNoKey == T("KeyError")
ErrStart == T("Textract start failed")
ErrFailed == T("Textract job failed: FAILED")
ErrTimeout == T("Textract polling exceeded worker max wait")
ErrPut == T("put_item failed")
ErrDenied == T("Bedrock chat model access denied")
NoErr == <<>>

VARIABLES
    jobs,       \* JOBS_TABLE: job_id -> item (a record of the attributes present)
    chunkTable, \* CHUNKS_TABLE: the set of items, keyed by (chunk_id, file_key)
    s3,         \* the documents bucket: key -> document, for the keys uploaded
    queue,      \* the SQS FIFO queue: messages not yet deleted, oldest first
    uploads,    \* upload_file requests between send_message and put_item
    uuids,      \* how many uuid4() values have been drawn
    counts,     \* uploads and foreign messages so far
    agentic,    \* ENABLE_AGENTIC_CHUNKING
    wk,         \* each worker invocation's position and locals
    env,        \* what the environment may do in this behaviour (fixed by Init)
    tracker,    \* whether update_item/put_item on JOBS_TABLE succeed now, and the outages so far
    log,        \* history: every chunk put_item and every job-state write, per run
    call        \* a direct call of one function of the module: arguments and result

vars == <<jobs, chunkTable, s3, queue, uploads, uuids, counts, agentic, wk, env, tracker, log,
          call>>

\* no function is being called directly
NoCall == [fn |-> "none"]

NoWrite == [state |-> "", progress |-> -1, message |-> <<>>, job_id |-> NoJob, ok |-> FALSE]

Idle ==
    [pc |-> "idle", batch |-> <<>>, ri |-> 0, job_id |-> NoJob, key |-> NoKey,
     lines |-> <<>>, chunks |-> <<>>, idx |-> 0, last_emitted_progress |-> 0,
     elapsed |-> 0, last_progress_update_ts |-> 0, err |-> NoErr,
     run |-> 0, polls |-> 0, trace |-> <<>>, last |-> NoWrite, puts |-> <<>>,
     rec_job |-> NoJob, fault |-> NoErr,
     tracker_failed |-> FALSE, denied |-> FALSE, llm_calls |-> 0]

\* ------------------------------------------------------------ Job Tracker
Reserved == {"state", "progress", "message", "updated_at"}

\* datetime.utcnow().isoformat() in upload_file and in _update_job_state: the
\* times are symbols, and the times of two updates are not told apart
UploadTime == <<"time of upload">>
UtcNow == <<"time of update">>

\* The SET clause _update_job_state builds: kw holds the keyword arguments that are
\* not None, attrs the extra attributes.
UpdateExpression(kw, attrs) ==
    LET names == {"updated_at"} \cup DOMAIN kw \cup (DOMAIN attrs \ Reserved)
    IN [k \in names |->
           IF k = "updated_at" THEN UtcNow
           ELSE IF k \in DOMAIN kw
           THEN (IF k = "message" THEN FirstChars(kw[k], MessageLimit) ELSE kw[k])
           ELSE attrs[k]]

\* an update that leaves the item with the named attributes only
UpdateItemReplacing(table, job_id, set) ==
    [j \in DOMAIN table \cup {job_id} |-> IF j = job_id THEN set ELSE table[j]]

\* DynamoDB update_item with SET: creates the item when absent, keeps the
\* attributes the expression does not name
UpdateItem(table, job_id, set) ==
    LET old == IF job_id \in DOMAIN table THEN table[job_id] ELSE <<>>
        new == [k \in DOMAIN old \cup DOMAIN set |->
                   IF k \in DOMAIN set THEN set[k] ELSE old[k]]
    IN [j \in DOMAIN table \cup {job_id} |-> IF j = job_id THEN new ELSE table[j]]

\* DynamoDB put_item: replaces the whole item
PutItem(table, job_id, item) ==
    [j \in DOMAIN table \cup {job_id} |-> IF j = job_id THEN item ELSE table[j]]

\* _update_job_state without its try/except: a failed update_item raises
_update_job_state_raising(table, job_id, kw, attrs, ok) ==
    [table |-> IF ok THEN UpdateItem(table, job_id, UpdateExpression(kw, attrs)) ELSE table,
     raised |-> ~ok]

\* _update_job_state: ok is whether update_item succeeded. The except clause
\* swallows the failure, so the call never raises.
_update_job_state(table, job_id, kw, attrs, ok) ==
    [table |-> IF ok THEN UpdateItem(table, job_id, UpdateExpression(kw, attrs)) ELSE table,
     raised |-> FALSE]

\* ------------------------------------------------------------ SQS
Message(mid, body) == [mid |-> mid, body |-> body, rc |-> 0, holder |-> "none"]
JobBody(job_id, key) == [json |-> TRUE, job_id |-> job_id, key |-> key]
\* bodies a producer other than upload_file may send: not JSON, or JSON without
\* job_id, bucket and key
ForeignBodies == { [json |-> FALSE, job_id |-> NoJob, key |-> NoKey],
                   [json |-> TRUE, job_id |-> NoJob, key |-> NoKey] }

RECURSIVE Release(_, _)
\* the messages w holds become visible again; one that has been received
\* MaxReceive times goes to the dead-letter queue
Release(q, w) ==
    IF q = <<>> THEN <<>>
    ELSE LET m == Head(q)
         IN (IF m.holder # w THEN <<m>>
             ELSE IF m.rc >= env.receives THEN <<>>
             ELSE <<[m EXCEPT !.holder = "none"]>>) \o Release(Tail(q), w)

RECURSIVE DeleteHeld(_, _)
DeleteHeld(q, w) ==
    IF q = <<>> THEN <<>>
    ELSE (IF Head(q).holder = w THEN <<>> ELSE <<Head(q)>>) \o DeleteHeld(Tail(q), w)

Holds(w) == \E i \in 1..Len(queue) : queue[i].holder = w

\* ------------------------------------------------------------ upload_file
QueuedItem(job_id, key) ==
    [job_id |-> job_id, file_key |-> key, file_name |-> key, state |-> "queued",
     progress |-> 0, message |-> T("Upload received; queued for processing"),
     updated_at |-> UploadTime]

\* s3.put_object, uuid4(), sqs.send_message (sent: whether it succeeded; when it
\* fails the handler answers 502 and writes no job item)
UploadSend ==
    /\ counts.uploads < MaxUploads
    /\ \E key \in Keys, doc \in env.docs, sent \in BOOLEAN :
          LET job_id == uuids + 1
          IN /\ s3' = [k \in DOMAIN s3 \cup {key} |-> IF k = key THEN doc ELSE s3[k]]
             /\ uuids' = job_id
             /\ counts' = [counts EXCEPT !.uploads = @ + 1]
             /\ queue' = IF sent THEN Append(queue, Message(job_id, JobBody(job_id, key)))
                         ELSE queue
             /\ uploads' = IF sent THEN uploads \cup {[job_id |-> job_id, key |-> key]}
                           ELSE uploads
    /\ UNCHANGED <<jobs, chunkTable, agentic, wk, env, tracker, log, call>>

\* jt.put_item(Item={... "state": "queued" ...}); a failure is logged and swallowed
UploadPutQueued ==
    /\ \E u \in uploads, ok \in {tracker.up} :
          /\ jobs' = IF ok THEN PutItem(jobs, u.job_id, QueuedItem(u.job_id, u.key)) ELSE jobs
          /\ uploads' = uploads \ {u}
    /\ UNCHANGED <<chunkTable, s3, queue, uuids, counts, agentic, wk, env, tracker, log, call>>

ForeignSend ==
    /\ counts.foreign < MaxForeign
    /\ \E body \in ForeignBodies :
          queue' = Append(queue, Message(100 + counts.foreign, body))
    /\ counts' = [counts EXCEPT !.foreign = @ + 1]
    /\ UNCHANGED <<jobs, chunkTable, s3, uploads, uuids, agentic, wk, env, tracker, log, call>>

\* ------------------------------------------------------------ the worker
ErrTracker == T("update_item failed")

\* The worker's record of its own calls of _update_job_state in this run: the
\* states asked for, in order, and the last call's arguments (progress -1: none)
\* with whether the table took the write.
Noted(l, kw, ok) ==
    [l EXCEPT !.trace = Append(@, kw.state),
              !.last = [state |-> kw.state,
                        progress |-> IF "progress" \in DOMAIN kw THEN kw.progress ELSE -1,
                        message |-> Get(kw, "message"),
                        job_id |-> l.job_id, ok |-> ok],
              !.tracker_failed = @ \/ ~ok]

\* an exception inside the try block: control goes to the except clause
Raise(l, e) == [l EXCEPT !.pc = "except", !.err = e]
\* ... caused by the environment (not by the Job Tracker)
Fault(l, e) == [Raise(l, e) EXCEPT !.fault = e]

\* uuid.uuid4(): a value never drawn before
Uuid4(n) == n + 1

\* A call of _update_job_state in the body of the try block, after which the
\* worker's locals are next. Had the call raised, the except clause would run.
Tracked(w, kw, attrs, ok, next) ==
    LET r == _update_job_state(jobs, next.job_id, kw, attrs, ok)
        l == Noted(next, kw, ok)
    IN /\ jobs' = r.table
       /\ wk' = [wk EXCEPT ![w] = IF r.raised THEN Raise(l, ErrTracker) ELSE l]

\* A call of _update_job_state wrapped in its own try/except (the initial
\* states, completed, failed): an exception from it is logged and dropped.
Guarded(w, kw, attrs, ok, next) ==
    LET r == _update_job_state(jobs, next.job_id, kw, attrs, ok)
    IN /\ jobs' = r.table
       /\ wk' = [wk EXCEPT ![w] = Noted(next, kw, ok)]

\* The Lambda service hands the first k visible messages to an idle worker (to
\* w1 when both are idle: the two are interchangeable). The queue is FIFO with
\* one message group per key: nothing is delivered while an earlier message of
\* the group is in flight.
Receive(w) ==
    /\ wk[w].pc = "idle"
    /\ w = "w1" \/ wk["w1"].pc # "idle"
    /\ \A i \in 1..Len(queue) : queue[i].holder = "none"
    /\ \E k \in 1..MaxBatch :
          /\ k <= Len(queue)
          /\ queue' = [i \in 1..Len(queue) |->
                          IF i <= k THEN [queue[i] EXCEPT !.holder = w, !.rc = @ + 1]
                          ELSE queue[i]]
          /\ wk' = [wk EXCEPT ![w] = [Idle EXCEPT !.pc = "record", !.ri = 1,
                                           !.batch = [i \in 1..k |-> queue[i].body]]]
    /\ UNCHANGED <<jobs, chunkTable, s3, uploads, uuids, counts, agentic, env, tracker, log, call>>

\* lines 432-453: read the message, write "received". job_id is a local of
\* lambda_handler: it keeps the previous record's value until it is assigned.
StartRecord(w) ==
    LET l0 == wk[w]
        body == l0.batch[l0.ri]
        l == [l0 EXCEPT !.run = counts.runs + 1, !.polls = 0, !.trace = <<>>,
                        !.last = NoWrite, !.rec_job = NoJob,
                        !.puts = <<>>, !.fault = NoErr, !.tracker_failed = FALSE,
                        !.denied = FALSE]
        job_id == IF body.job_id # NoJob THEN body.job_id ELSE Uuid4(uuids)
    IN /\ l0.pc = "record"
       /\ l0.ri <= Len(l0.batch)
       /\ counts' = [counts EXCEPT !.runs = @ + 1]
       /\ IF ~body.json
          THEN /\ wk' = [wk EXCEPT ![w] = Fault(l, ErrBadJson)]
               /\ UNCHANGED <<jobs, uuids>>
          ELSE /\ uuids' = IF body.job_id # NoJob THEN uuids ELSE Uuid4(uuids)
               /\ IF body.key = NoKey
                  THEN /\ wk' = [wk EXCEPT ![w] = Fault([l EXCEPT !.job_id = job_id,
                                                                !.rec_job = job_id], ErrNoKey)]
                       /\ UNCHANGED jobs
                  ELSE \E ok \in {tracker.up} :
                          Guarded(w, [state |-> "received", progress |-> 5],
                                  [file_key |-> body.key, file_name |-> body.key], ok,
                                  [l EXCEPT !.job_id = job_id, !.rec_job = job_id,
                                            !.key = body.key, !.pc = "processing"])
       /\ UNCHANGED <<chunkTable, s3, queue, uploads, agentic, env, tracker, log, call>>

\* line 454
WriteProcessing(w) ==
    /\ wk[w].pc = "processing"
    /\ \E ok \in {tracker.up} :
          Guarded(w, [state |-> "processing", progress |-> 10], <<>>, ok,
                  [wk[w] EXCEPT !.pc = "textract_start"])
    /\ UNCHANGED <<chunkTable, s3, queue, uploads, uuids, counts, agentic, env, tracker, log, call>>

\* _extract_textract_lines, lines 346-373: start_document_text_detection and the
\* textract_started heartbeat
StartTextract(w) ==
    LET l == wk[w]
    IN /\ l.pc = "textract_start"
       /\ \E started \in BOOLEAN, ok \in {tracker.up} :
             IF ~started \/ l.key \notin DOMAIN s3
             THEN /\ wk' = [wk EXCEPT ![w] = Fault(l, ErrStart)]
                  /\ UNCHANGED jobs
             ELSE Tracked(w, [state |-> "textract_started", progress |-> 20],
                          [textract_job_id |-> T("tx")], ok,
                          [l EXCEPT !.pc = "poll", !.lines = s3[l.key], !.elapsed = 0,
                                    !.last_progress_update_ts = 0])
       /\ UNCHANGED <<chunkTable, s3, queue, uploads, uuids, counts, agentic, env, tracker, log, call>>

\* lines 375-383, JobStatus SUCCEEDED
PollSucceeded(w) ==
    /\ wk[w].pc = "poll"
    /\ wk' = [wk EXCEPT ![w] = [@ EXCEPT !.pc = "gather", !.polls = @ + 1]]
    /\ UNCHANGED <<jobs, chunkTable, s3, queue, uploads, uuids, counts, agentic, env, tracker, log, call>>

\* FAILED recorded but not raised: the loop is left as for SUCCEEDED
PollFailedContinues(w) ==
    /\ wk[w].pc = "poll"
    /\ Tracked(w, [state |-> "failed", message |-> ErrFailed], <<>>, tracker.up,
               [wk[w] EXCEPT !.pc = "gather", !.polls = @ + 1])
    /\ UNCHANGED <<chunkTable, s3, queue, uploads, uuids, counts, agentic, env, tracker, log, call>>

\* FAILED met without a raise: the result pages are collected next
PollFailedGathers(w) ==
    /\ wk[w].pc = "poll"
    /\ wk' = [wk EXCEPT ![w] = [@ EXCEPT !.polls = @ + 1, !.fault = ErrFailed,
                                         !.pc = "gather"]]
    /\ UNCHANGED <<jobs, chunkTable, s3, queue, uploads, uuids, counts, agentic, env, tracker, log, call>>

\* lines 375-382, JobStatus FAILED
PollFailed(w) ==
    /\ wk[w].pc = "poll"
    /\ wk' = [wk EXCEPT ![w] = Fault([@ EXCEPT !.polls = @ + 1], ErrFailed)]
    /\ UNCHANGED <<jobs, chunkTable, s3, queue, uploads, uuids, counts, agentic, env, tracker, log, call>>

\* the estimate without its base of 20
PollingEstimateFromZero(elapsed, max_wait) ==
    LET est == (elapsed * 35) \div max_wait
    IN IF est < 55 THEN est ELSE 55

\* min(55, 20 + int((elapsed / max_wait) * 35))
PollingEstimate(elapsed, max_wait) ==
    LET est == 20 + (elapsed * 35) \div max_wait
    IN IF est < 55 THEN est ELSE 55

\* the timeout test made one poll interval too late
TimedOutLate(elapsed, max_wait) == elapsed > max_wait + PollSleep

\* time.time() - start_ts > max_wait
TimedOut(elapsed, max_wait) == elapsed > max_wait

\* lines 375-394, any other JobStatus: sleep, then time out or go round again,
\* with a heartbeat when the last one is more than HeartbeatGap old
PollInProgress(w) ==
    LET l == wk[w]
    IN /\ l.pc = "poll"
       /\ \E jitter \in 0..env.jitter, ok \in {tracker.up} :
             LET elapsed == l.elapsed + PollSleep + jitter
                 now == Epoch + elapsed
                 l1 == [l EXCEPT !.polls = @ + 1, !.elapsed = elapsed]
             IN IF TimedOut(elapsed, env.max_wait)
                THEN /\ wk' = [wk EXCEPT ![w] = Fault(l1, ErrTimeout)]
                     /\ UNCHANGED jobs
                ELSE IF now - l.last_progress_update_ts > HeartbeatGap
                THEN Tracked(w, [state |-> "textract_polling",
                                 progress |-> PollingEstimate(elapsed, env.max_wait)],
                             <<>>, ok, [l1 EXCEPT !.last_progress_update_ts = now])
                ELSE /\ wk' = [wk EXCEPT ![w] = l1]
                     /\ UNCHANGED jobs
       /\ UNCHANGED <<chunkTable, s3, queue, uploads, uuids, counts, agentic, env, tracker, log, call>>

\* every block is taken, whatever its BlockType
RECURSIVE LineBlocksAll(_)
LineBlocksAll(blocks) ==
    IF blocks = <<>> THEN <<>>
    ELSE << [text |-> Head(blocks).Text,
             page |-> IF Head(blocks).Page = 0 THEN 1 ELSE Head(blocks).Page] >>
         \o LineBlocksAll(Tail(blocks))

\* the blocks of the result pages that are LINE blocks, in page then block order
RECURSIVE LineBlocks(_)
LineBlocks(blocks) ==
    IF blocks = <<>> THEN <<>>
    ELSE (IF Head(blocks).BlockType = "LINE"
          THEN << [text |-> Head(blocks).Text,
                   page |-> IF Head(blocks).Page = 0 THEN 1 ELSE Head(blocks).Page] >>
          ELSE <<>>) \o LineBlocks(Tail(blocks))

RECURSIVE GatherLines(_)
GatherLines(pages) ==
    IF pages = <<>> THEN <<>>
    ELSE LineBlocks(Head(pages)) \o GatherLines(Tail(pages))

\* Gather without its final heartbeat
GatherSilent(w) ==
    /\ wk[w].pc = "gather"
    /\ wk' = [wk EXCEPT ![w] = [@ EXCEPT !.pc = "chunking", !.lines = GatherLines(@),
                                         !.elapsed = 0, !.last_progress_update_ts = 0]]
    /\ UNCHANGED <<jobs, chunkTable, s3, queue, uploads, uuids, counts, agentic, env, tracker, log, call>>

\* lines 396-420: collect the LINE blocks, textract_succeeded heartbeat
Gather(w) ==
    LET l == wk[w]
        text_lines == GatherLines(l.lines)
    IN /\ l.pc = "gather"
       /\ \E ok \in {tracker.up} :
             Tracked(w, [state |-> "textract_succeeded", progress |-> 60],
                     [textract_line_count |-> Len(text_lines)], ok,
                     [l EXCEPT !.pc = "chunking", !.lines = text_lines, !.elapsed = 0,
                               !.last_progress_update_ts = 0])
       /\ UNCHANGED <<chunkTable, s3, queue, uploads, uuids, counts, agentic, env, tracker, log, call>>

\* the replies the language model may give in this behaviour
Allowed(replies) == {r \in replies : r.kind \in env.replies}

\* lines 472 / 494-496: the chunking_started write of either branch
ChunkingStarted(w) ==
    /\ wk[w].pc = "chunking"
    /\ \E ok \in {tracker.up} :
          Tracked(w, [state |-> IF agentic THEN "chunking_started"
                                ELSE "chunking_started_naive", progress |-> 65],
                  <<>>, ok, [wk[w] EXCEPT !.pc = "chunk"])
    /\ UNCHANGED <<chunkTable, s3, queue, uploads, uuids, counts, agentic, env, tracker, log, call>>

\* lines 481-492: "except Exception" around the agentic branch catches whatever
\* agentic_chunk_text raises, PermissionError included
HandlerFallsBack(raised) == raised

\* the naive branch taken whatever ENABLE_AGENTIC_CHUNKING says
ChunkSkipsAgentic(w) ==
    LET l == wk[w]
        naive == chunk_text_with_offsets(l.lines, DefaultChunkSize, DefaultOverlap)
    IN /\ l.pc = "chunk"
       /\ Tracked(w, [state |-> "chunking_completed", progress |-> 80],
                  [prelim_chunk_count |-> Len(naive)], tracker.up,
                  [l EXCEPT !.pc = "storing", !.chunks = naive])
       /\ UNCHANGED <<chunkTable, s3, queue, uploads, uuids, counts, agentic, env, tracker, log, call>>

\* lines 473-504: run the chunker, write chunking_completed or chunking_fallback_naive
Chunk(w) ==
    LET l == wk[w]
        naive == chunk_text_with_offsets(l.lines, DefaultChunkSize, DefaultOverlap)
    IN /\ l.pc = "chunk"
       /\ \E ok \in {tracker.up} :
             IF agentic
             THEN \E r1 \in Allowed(ExtractReplies) :
                  \E r2 \in (IF r1.kind = "denied" \/ AgenticPropositions(l.lines, r1) = <<>>
                             THEN {Garbage}
                             ELSE Allowed(ClusterReplies(AgenticPropositions(l.lines, r1)))) :
                     LET res == agentic_chunk_text(l.lines, r1, r2)
                     IN IF ~res.raised
                        THEN Tracked(w, [state |-> "chunking_completed", progress |-> 80],
                                     [prelim_chunk_count |-> Len(res.chunks)], ok,
                                     [l EXCEPT !.pc = "storing", !.chunks = res.chunks,
                                               !.llm_calls = res.calls])
                        ELSE IF HandlerFallsBack(res.raised)
                        THEN Tracked(w, [state |-> "chunking_fallback_naive", progress |-> 75],
                                     [prelim_chunk_count |-> Len(naive)], ok,
                                     [l EXCEPT !.pc = "storing", !.chunks = naive,
                                               !.denied = TRUE, !.llm_calls = res.calls])
                        ELSE /\ wk' = [wk EXCEPT
                                          ![w] = Raise([l EXCEPT !.denied = TRUE], ErrDenied)]
                             /\ UNCHANGED jobs
             ELSE Tracked(w, [state |-> "chunking_completed", progress |-> 80],
                          [prelim_chunk_count |-> Len(naive)], ok,
                          [l EXCEPT !.pc = "storing", !.chunks = naive])
       /\ UNCHANGED <<chunkTable, s3, queue, uploads, uuids, counts, agentic, env, tracker, log, call>>

\* lines 506-508
StoringStart(w) ==
    /\ wk[w].pc = "storing"
    /\ \E ok \in {tracker.up} :
          Tracked(w, [state |-> "storing_chunks", progress |-> 85], <<>>, ok,
                  [wk[w] EXCEPT !.pc = "put", !.idx = 0, !.last_emitted_progress = 85,
                                !.lines = <<>>, !.llm_calls = 0])
    /\ UNCHANGED <<chunkTable, s3, queue, uploads, uuids, counts, agentic, env, tracker, log, call>>

\* a writer that replaces the file's record of the same text, if there is one
_put_chunk_by_text(table, chunk_id, key, title, summary, text) ==
    LET item == [chunk_id |-> chunk_id, file_key |-> key, title |-> title,
                 summary |-> summary, text |-> text]
    IN {i \in table : ~(i.file_key = key /\ i.text = text)} \cup {item}

\* lines 275-284: put_item replaces the item with the same key, if there is one
_put_chunk(table, chunk_id, key, title, summary, text) ==
    LET item == [chunk_id |-> chunk_id, file_key |-> key, title |-> title,
                 summary |-> summary, text |-> text]
    IN {i \in table : ~(i.chunk_id = chunk_id /\ i.file_key = key)} \cup {item}

\* a chunk id made from the chunk's position instead of a uuid
ChunkIdByIndex(n, idx) == idx + 1

\* line 510: chunk_id = str(uuid.uuid4()), whatever idx is
ChunkId(n, idx) == Uuid4(n)

\* the percentage computed from the chunks left instead of the chunks done
StoringPctDown(idx, total) == 85 + ((total - idx) * 13) \div total

\* 85 + int(((idx + 1) / total) * 13)
StoringPct(idx, total) == 85 + ((idx + 1) * 13) \div total

\* a write after every chunk
EmitsAlways(pct, last_emitted_progress, idx, total) == TRUE

\* pct - last_emitted_progress >= 3 or (idx + 1) % 10 == 0 or (idx + 1) == total
EmitsProgress(pct, last_emitted_progress, idx, total) ==
    \/ pct - last_emitted_progress >= 3
    \/ (idx + 1) % 10 = 0
    \/ idx + 1 = total

\* lines 509-529: one iteration of "for idx, c in enumerate(chunks)"
PutChunk(w) ==
    LET l == wk[w]
        idx == l.idx
        c == l.chunks[idx + 1]
        total == IF Len(l.chunks) > 1 THEN Len(l.chunks) ELSE 1
        chunk_id == ChunkId(uuids, idx)
        title == IF Truthy(Get(c, "title")) THEN c.title ELSE <<"Chunk ", ToString(idx + 1)>>
        summary == IF Truthy(Get(c, "summary")) THEN c.summary ELSE title
        text == Get(c, "text")
        table == _put_chunk(chunkTable, chunk_id, l.key, title, summary, text)
        item == [chunk_id |-> chunk_id, file_key |-> l.key, title |-> title,
                 summary |-> summary, text |-> text]
        pct == StoringPct(idx, total)
        l1 == [l EXCEPT !.idx = idx + 1, !.puts = Append(@, item)]
    IN /\ l.pc = "put"
       /\ idx < Len(l.chunks)
       /\ \E stored \in BOOLEAN, ok \in {tracker.up} :
             IF ~stored
             THEN /\ wk' = [wk EXCEPT ![w] = Fault(l, ErrPut)]
                  /\ UNCHANGED <<jobs, chunkTable, uuids, log>>
             ELSE /\ chunkTable' = table
                  /\ uuids' = Uuid4(uuids)
                  /\ log' = Append(log, [run |-> l.run, job_id |-> l.job_id, item |-> item])
                  /\ IF EmitsProgress(pct, l.last_emitted_progress, idx, total)
                     THEN Tracked(w, [state |-> "storing_chunks", progress |-> pct],
                                  [stored_chunks |-> idx + 1], ok,
                                  [l1 EXCEPT !.last_emitted_progress = pct])
                     ELSE /\ wk' = [wk EXCEPT ![w] = l1]
                          /\ UNCHANGED jobs
       /\ UNCHANGED <<s3, queue, uploads, counts, agentic, env, tracker, call>>

\* completed written from inside the storing loop, whatever has been stored
CompleteAnyTime(w) ==
    LET l == wk[w]
    IN /\ l.pc = "put"
       /\ Guarded(w, [state |-> "completed", progress |-> 100],
                  [chunk_count |-> Len(l.chunks)], tracker.up,
                  [l EXCEPT !.pc = "record_done"])
       /\ UNCHANGED <<chunkTable, s3, queue, uploads, uuids, counts, agentic, env, tracker, log, call>>

\* lines 530-541: the loop is over; write completed and go to the next record
Complete(w) ==
    LET l == wk[w]
    IN /\ l.pc = "put"
       /\ l.idx = Len(l.chunks)
       /\ \E ok \in {tracker.up} :
             Guarded(w, [state |-> "completed", progress |-> 100],
                     [chunk_count |-> Len(l.chunks)], ok,
                     [l EXCEPT !.pc = "record_done"])
       /\ UNCHANGED <<chunkTable, s3, queue, uploads, uuids, counts, agentic, env, tracker, log, call>>

\* "for rec in records": on to the next record
NextRecord(w) ==
    /\ wk[w].pc = "record_done"
    /\ wk' = [wk EXCEPT ![w] = [@ EXCEPT !.pc = "record", !.ri = @ + 1, !.chunks = <<>>,
                                         !.idx = 0, !.last_emitted_progress = 0]]
    /\ UNCHANGED <<jobs, chunkTable, s3, queue, uploads, uuids, counts, agentic, env, tracker, log, call>>

\* lines 542-551: write failed to job_id if that local is bound, then re-raise
Except(w) ==
    LET l == wk[w]
    IN /\ l.pc = "except"
       /\ IF l.job_id # NoJob
          THEN \E ok \in {tracker.up} :
                  Guarded(w, [state |-> "failed", message |-> l.err], <<>>, ok,
                          [l EXCEPT !.pc = "raised"])
          ELSE /\ wk' = [wk EXCEPT ![w] = [l EXCEPT !.pc = "raised"]]
               /\ UNCHANGED jobs
       /\ UNCHANGED <<chunkTable, s3, queue, uploads, uuids, counts, agentic, env, tracker, log, call>>

\* line 553: every record is done, return {"success": True, ...}
Return(w) ==
    /\ wk[w].pc = "record"
    /\ wk[w].ri > Len(wk[w].batch)
    /\ wk' = [wk EXCEPT ![w] = [@ EXCEPT !.pc = "returned"]]
    /\ UNCHANGED <<jobs, chunkTable, s3, queue, uploads, uuids, counts, agentic, env, tracker, log, call>>

\* SQS after a successful invocation: the batch is deleted
DeleteBatch(w) ==
    /\ wk[w].pc = "returned"
    /\ queue' = DeleteHeld(queue, w)
    /\ wk' = [wk EXCEPT ![w] = Idle]
    /\ UNCHANGED <<jobs, chunkTable, s3, uploads, uuids, counts, agentic, env, tracker, log, call>>

\* SQS after an invocation that raised: the batch becomes visible again
Redeliver(w) ==
    /\ wk[w].pc = "raised"
    /\ queue' = Release(queue, w)
    /\ wk' = [wk EXCEPT ![w] = Idle]
    /\ UNCHANGED <<jobs, chunkTable, s3, uploads, uuids, counts, agentic, env, tracker, log, call>>

\* The visibility timeout of the batch runs out while the invocation is still
\* working (a poll loop may last TEXTRACT_MAX_WAIT): the messages become visible
\* again and another invocation may receive them.
VisibilityTimeout(w) ==
    /\ wk[w].pc \notin {"idle", "returned", "raised"}
    /\ Holds(w)
    /\ queue' = Release(queue, w)
    /\ UNCHANGED <<jobs, chunkTable, s3, uploads, uuids, counts, agentic, wk, env, tracker, log, call>>

\* JOBS_TABLE stops taking writes (throttling, an outage) and takes them again
TrackerDown ==
    /\ tracker.up
    /\ tracker.outages < MaxOutages
    /\ tracker' = [up |-> FALSE, outages |-> tracker.outages + 1]
    /\ UNCHANGED <<jobs, chunkTable, s3, queue, uploads, uuids, counts, agentic, wk, env, log, call>>

TrackerUp ==
    /\ ~tracker.up
    /\ tracker' = [tracker EXCEPT !.up = TRUE]
    /\ UNCHANGED <<jobs, chunkTable, s3, queue, uploads, uuids, counts, agentic, wk, env, log, call>>

\* ------------------------------------------------------------ specification
WorkerStep(w) ==
    \/ Receive(w)
    \/ StartRecord(w)
    \/ WriteProcessing(w)
    \/ StartTextract(w)
    \/ PollSucceeded(w)
    \/ PollFailed(w)
    \/ PollInProgress(w)
    \/ Gather(w)
    \/ ChunkingStarted(w)
    \/ Chunk(w)
    \/ StoringStart(w)
    \/ PutChunk(w)
    \/ Complete(w)
    \/ NextRecord(w)
    \/ Except(w)
    \/ Return(w)
    \/ DeleteBatch(w)
    \/ Redeliver(w)

\* One invocation at a time, every message delivered once, against everything the
\* environment can do to it. The initial state is the state upload_file leaves:
\* the document in the bucket, the message in the queue (a foreign message may
\* be queued before or after it), and the queued item written or not.
TheJob == Message(1, JobBody(1, "a.pdf"))
Init ==
    /\ \E doc \in Documents : s3 = [k \in {"a.pdf"} |-> doc]
    /\ jobs \in {<<>>, [j \in {1} |-> QueuedItem(1, "a.pdf")]}
    /\ \E f \in ForeignBodies :
          queue \in {<<TheJob>>, <<TheJob, Message(100, f)>>, <<Message(100, f), TheJob>>}
    /\ chunkTable = {}
    /\ uploads = {}
    /\ uuids = 1
    /\ counts = [uploads |-> 1, foreign |-> 1, runs |-> 0]
    /\ agentic \in BOOLEAN
    /\ wk = [w \in Workers |-> Idle]
    /\ env = [max_wait |-> TextractMaxWait, jitter |-> MaxJitter, receives |-> 1,
              docs |-> Documents, replies |-> ReplyKinds]
    /\ tracker = [up |-> TRUE, outages |-> 0]
    /\ log = <<>>
    /\ call = NoCall

Next == WorkerStep("w1") \/ TrackerDown \/ TrackerUp

Spec == Init /\ [][Next]_vars

\* The system from nothing, one invocation at a time: uploads, foreign messages,
\* batches and redelivery. The Job Tracker's table is always available and the
\* language model always answers.
Reliable == [max_wait |-> PollSleep, jitter |-> 0, receives |-> MaxReceive,
             docs |-> {d \in Documents : Len(d) = 2}, replies |-> {"ok"}]

InitSystem ==
    /\ s3 = <<>>
    /\ jobs = <<>>
    /\ queue = <<>>
    /\ chunkTable = {}
    /\ uploads = {}
    /\ uuids = 0
    /\ counts = [uploads |-> 0, foreign |-> 0, runs |-> 0]
    /\ agentic = TRUE
    /\ wk = [w \in Workers |-> Idle]
    /\ env = Reliable
    /\ tracker = [up |-> TRUE, outages |-> 0]
    /\ log = <<>>
    /\ call = NoCall

NextSystem ==
    \/ UploadSend
    \/ UploadPutQueued
    \/ ForeignSend
    \/ WorkerStep("w1")

SpecSystem == InitSystem /\ [][NextSystem]_vars

\* Two invocations at once: the upload is over, and the visibility timeout of a
\* batch may run out while its invocation is still at work, so that the message
\* is handed to the other invocation too.
InitConcurrent ==
    /\ \E doc \in Reliable.docs : s3 = [k \in {"a.pdf"} |-> doc]
    /\ jobs = [j \in {1} |-> QueuedItem(1, "a.pdf")]
    /\ queue = <<TheJob>>
    /\ chunkTable = {}
    /\ uploads = {}
    /\ uuids = 1
    /\ counts = [uploads |-> 1, foreign |-> 0, runs |-> 0]
    /\ agentic = TRUE
    /\ wk = [w \in Workers |-> Idle]
    /\ env = Reliable
    /\ tracker = [up |-> TRUE, outages |-> 0]
    /\ log = <<>>
    /\ call = NoCall

NextConcurrent == \E w \in Workers : WorkerStep(w) \/ VisibilityTimeout(w)

SpecConcurrent == InitConcurrent /\ [][NextConcurrent]_vars

\* One invocation at a time after the upload is over: the job's message, alone or
\* in a batch with a foreign message, is delivered up to MaxReceive times; any
\* document, any answer of the language model.
InitRedelivery ==
    /\ \E doc \in Documents : s3 = [k \in {"a.pdf"} |-> doc]
    /\ jobs = [j \in {1} |-> QueuedItem(1, "a.pdf")]
    /\ \E f \in ForeignBodies :
          queue \in {<<TheJob>>, <<TheJob, Message(100, f)>>, <<Message(100, f), TheJob>>}
    /\ chunkTable = {}
    /\ uploads = {}
    /\ uuids = 1
    /\ counts = [uploads |-> 1, foreign |-> 1, runs |-> 0]
    /\ agentic \in BOOLEAN
    /\ wk = [w \in Workers |-> Idle]
    /\ env = [Reliable EXCEPT !.docs = Documents, !.replies = ReplyKinds]
    /\ tracker = [up |-> TRUE, outages |-> 0]
    /\ log = <<>>
    /\ call = NoCall

NextRedelivery == WorkerStep("w1")

SpecRedelivery == InitRedelivery /\ [][NextRedelivery]_vars

\* One invocation, one delivery, with a maximum wait of exactly two poll
\* intervals and calls that take time of their own: Textract may answer
\* SUCCEEDED at once or after one or two IN_PROGRESS replies.
InitPolling ==
    /\ \E doc \in Documents : s3 = [k \in {"a.pdf"} |-> doc]
    /\ jobs = [j \in {1} |-> QueuedItem(1, "a.pdf")]
    /\ \E f \in ForeignBodies :
          queue \in {<<TheJob>>, <<TheJob, Message(100, f)>>, <<Message(100, f), TheJob>>}
    /\ chunkTable = {}
    /\ uploads = {}
    /\ uuids = 1
    /\ counts = [uploads |-> 1, foreign |-> 1, runs |-> 0]
    /\ agentic \in BOOLEAN
    /\ wk = [w \in Workers |-> Idle]
    /\ env = [max_wait |-> 2 * PollSleep, jitter |-> MaxJitter, receives |-> 1,
              docs |-> Documents, replies |-> ReplyKinds]
    /\ tracker = [up |-> TRUE, outages |-> 0]
    /\ log = <<>>
    /\ call = NoCall

NextPolling == WorkerStep("w1")

SpecPolling == InitPolling /\ [][NextPolling]_vars

\* One invocation, one delivery, with a maximum wait of five poll intervals:
\* long enough for a second textract_polling heartbeat.
InitLongPoll ==
    /\ \E doc \in Documents : s3 = [k \in {"a.pdf"} |-> doc]
    /\ jobs = [j \in {1} |-> QueuedItem(1, "a.pdf")]
    /\ \E f \in ForeignBodies :
          queue \in {<<TheJob>>, <<TheJob, Message(100, f)>>, <<Message(100, f), TheJob>>}
    /\ chunkTable = {}
    /\ uploads = {}
    /\ uuids = 1
    /\ counts = [uploads |-> 1, foreign |-> 1, runs |-> 0]
    /\ agentic \in BOOLEAN
    /\ wk = [w \in Workers |-> Idle]
    /\ env = [max_wait |-> 5 * PollSleep, jitter |-> MaxJitter, receives |-> 1,
              docs |-> Documents, replies |-> ReplyKinds]
    /\ tracker = [up |-> TRUE, outages |-> 0]
    /\ log = <<>>
    /\ call = NoCall

NextLongPoll == WorkerStep("w1")

SpecLongPoll == InitLongPoll /\ [][NextLongPoll]_vars

\* ------------------------------------------------------------ direct calls
\* chunk_text_with_offsets called on its own, with any lines and parameters
MaxLines == 3        \* lines in one call
MaxChunkSize == 6    \* chunk_size is drawn from 1..MaxChunkSize
MaxOverlap == 3      \* overlap is drawn from 0..MaxOverlap

\* line texts: empty, blank, with inner, leading and trailing whitespace, long
ChunkerTexts ==
    { <<>>, <<" ">>, <<"a">>, <<"a", "b">>, <<"a", " ", "b">>, <<" ", "a">>, <<"b", " ">>,
      <<"a", "b", "c", "d">> }

\* two lines to a page
LinesOf(texts) == [i \in 1..Len(texts) |-> [text |-> texts[i], page |-> (i + 1) \div 2]]

ChunkerLines == {LinesOf(t) : t \in UNION {[1..n -> ChunkerTexts] : n \in 0..MaxLines}}

ExampleLines ==
    << [text |-> <<"A", "p", "p", "l", "e", "s", " ", "a", "r", "e", " ", "r", "e", "d", ".">>,
        page |-> 1],
       [text |-> <<"B", "a", "n", "a", "n", "a", "s", " ", "a", "r", "e", " ", "y", "e", "l", "l", "o", "w", ".">>,
        page |-> 1],
       [text |-> <<"A", "p", "p", "l", "e", "s", " ", "g", "r", "o", "w", " ", "o", "n", " ", "t", "r", "e", "e", "s", ".">>,
        page |-> 1] >>

ChunkerCall(lines, chunk_size, overlap) ==
    [fn |-> "chunk_text_with_offsets", lines |-> lines, chunk_size |-> chunk_size,
     overlap |-> overlap, done |-> FALSE, out |-> <<>>]

ExampleCall == ChunkerCall(ExampleLines, 40, 5)

ChunkerCalls ==
    {ChunkerCall(ls, cs, ov) : ls \in ChunkerLines, cs \in 1..MaxChunkSize, ov \in 0..MaxOverlap}
    \cup {ExampleCall}

\* nothing uploaded, queued or running
Quiescent ==
    /\ s3 = <<>>
    /\ jobs = <<>>
    /\ queue = <<>>
    /\ chunkTable = {}
    /\ uploads = {}
    /\ uuids = 0
    /\ counts = [uploads |-> 0, foreign |-> 0, runs |-> 0]
    /\ agentic = FALSE
    /\ wk = [w \in Workers |-> Idle]
    /\ env = Reliable
    /\ tracker = [up |-> TRUE, outages |-> 0]
    /\ log = <<>>

InitChunker == Quiescent /\ call \in ChunkerCalls

CallChunker ==
    /\ call.fn = "chunk_text_with_offsets"
    /\ ~call.done
    /\ call' = [call EXCEPT !.done = TRUE,
                            !.out = chunk_text_with_offsets(call.lines, call.chunk_size,
                                                            call.overlap)]
    /\ UNCHANGED <<jobs, chunkTable, s3, queue, uploads, uuids, counts, agentic, wk, env,
                   tracker, log>>

NextChunker == CallChunker

SpecChunker == InitChunker /\ [][NextChunker]_vars

\* the outcomes the clustering call may have after extraction reply r1
ClusterRepliesFor(lines, r1) ==
    IF r1.kind = "denied" \/ AgenticPropositions(lines, r1) = <<>> THEN {Garbage}
    ELSE ClusterReplies(AgenticPropositions(lines, r1))

\* agentic_chunk_text(lines) with the outcomes r1, r2 of its language-model calls
AgenticCall(lines, r1, r2) ==
    [fn |-> "agentic_chunk_text", lines |-> lines, r1 |-> r1, r2 |-> r2, done |-> FALSE,
     out |-> [raised |-> FALSE, chunks |-> <<>>, calls |-> 0]]

InitAgentic ==
    /\ Quiescent
    /\ \E ls \in ChunkerLines, r1 \in ExtractReplies :
          \E r2 \in ClusterRepliesFor(ls, r1) : call = AgenticCall(ls, r1, r2)

CallAgentic ==
    /\ call.fn = "agentic_chunk_text"
    /\ ~call.done
    /\ call' = [call EXCEPT !.done = TRUE,
                            !.out = agentic_chunk_text(call.lines, call.r1, call.r2)]
    /\ UNCHANGED <<jobs, chunkTable, s3, queue, uploads, uuids, counts, agentic, wk, env,
                   tracker, log>>

NextAgentic == CallAgentic

SpecAgentic == InitAgentic /\ [][NextAgentic]_vars

\* extract_propositions_from_text called on its own: the text of any of the
\* line sequences, a text of sentences, and a text one character longer than
\* PromptTextLimit (with a reply that parses); prompt_text is the document text
\* in the request made.
SentenceText == <<"A", ".", " ", "B", "!", " ", " ", "C">>
LongText == [i \in 1..(PromptTextLimit + 1) |-> "a"]

ExtractCall(full_text, reply) ==
    [fn |-> "extract_propositions_from_text", full_text |-> full_text, reply |-> reply,
     done |-> FALSE, prompt_text |-> <<>>, raised |-> FALSE, out |-> <<>>]

InitExtract ==
    /\ Quiescent
    /\ \/ \E ls \in ChunkerLines, reply \in ExtractReplies :
             call = ExtractCall(FullText(ls), reply)
       \/ \E reply \in ExtractReplies : call = ExtractCall(SentenceText, reply)
       \/ \E reply \in {r \in ExtractReplies : r.kind = "ok"} :
             call = ExtractCall(LongText, reply)

\* lines 144-173; an exception of _bedrock_chat leaves the function
CallExtract ==
    /\ call.fn = "extract_propositions_from_text"
    /\ ~call.done
    /\ call' = [call EXCEPT
                   !.done = TRUE,
                   !.prompt_text = ExtractionPromptText(call.full_text),
                   !.raised = call.reply.kind \in {"denied", "error"},
                   !.out = IF call.reply.kind \in {"denied", "error"} THEN <<>>
                           ELSE extract_propositions_from_text(call.full_text, call.reply)]
    /\ UNCHANGED <<jobs, chunkTable, s3, queue, uploads, uuids, counts, agentic, wk, env,
                   tracker, log>>

NextExtract == CallExtract

SpecExtract == InitExtract /\ [][NextExtract]_vars

\* cluster_propositions_agentically called on its own: any list of up to
\* MaxProps propositions, and a list longer than the sample sent to the model
MaxProps == 3
PropositionTexts == { <<"p">>, <<"q">>, <<"r", " ", "s">> }
PropositionLists == UNION {[1..n -> PropositionTexts] : n \in 0..MaxProps}
LongList == [i \in 1..(ClusterSampleCap + 1) |-> <<"p">>]

ClusterCall(propositions, reply) ==
    [fn |-> "cluster_propositions_agentically", propositions |-> propositions,
     reply |-> reply, done |-> FALSE, calls |-> 0, raised |-> FALSE, out |-> <<>>]

InitCluster ==
    /\ Quiescent
    /\ \/ \E ps \in PropositionLists :
             \E reply \in (IF ps = <<>> THEN {Garbage} ELSE ClusterReplies(ps)) :
                call = ClusterCall(ps, reply)
       \/ \E reply \in {OtherError, Garbage} : call = ClusterCall(LongList, reply)

\* lines 176-222: no call for an empty list; an exception of _bedrock_chat
\* leaves the function
CallCluster ==
    /\ call.fn = "cluster_propositions_agentically"
    /\ ~call.done
    /\ call' = IF call.propositions = <<>>
               THEN [call EXCEPT !.done = TRUE]
               ELSE IF call.reply.kind \in {"denied", "error"}
               THEN [call EXCEPT !.done = TRUE, !.calls = 1, !.raised = TRUE]
               ELSE [call EXCEPT !.done = TRUE, !.calls = 1,
                                 !.out = cluster_propositions_agentically(call.propositions,
                                                                          call.reply)]
    /\ UNCHANGED <<jobs, chunkTable, s3, queue, uploads, uuids, counts, agentic, wk, env,
                   tracker, log>>

NextCluster == CallCluster

SpecCluster == InitCluster /\ [][NextCluster]_vars

\* update_chunk (PUT /delphi-vault-chunks) called on a chunk table that holds
\* the records of earlier runs. A body names a chunk_id and a file_key (NoJob,
\* NoKey: missing or empty) and gives any of text, summary and title ("" is <<>>).
StoredChunk(chunk_id, key) ==
    [chunk_id |-> chunk_id, file_key |-> key, title |-> T("Chunk 1"),
     summary |-> T("Chunk 1"), text |-> T("old")]

ChunkTables ==
    { {}, {StoredChunk(1, "a.pdf")}, {StoredChunk(1, "a.pdf"), StoredChunk(2, "a.pdf")} }

EditBodies ==
    { [chunk_id |-> c, file_key |-> k, fields |-> f] :
         c \in {NoJob, 1, 2}, k \in {NoKey, "a.pdf", "b.pdf"},
         f \in UNION {[S -> {<<>>, T("new")}] : S \in SUBSET {"text", "summary", "title"}} }

EditCall(body, ok) ==
    [fn |-> "update_chunk", body |-> body, ok |-> ok, done |-> FALSE, status |-> 0,
     message |-> <<>>]

InitChunkEdit ==
    /\ s3 = <<>>
    /\ jobs = <<>>
    /\ queue = <<>>
    /\ chunkTable \in ChunkTables
    /\ uploads = {}
    /\ uuids = 2
    /\ counts = [uploads |-> 0, foreign |-> 0, runs |-> 0]
    /\ agentic = FALSE
    /\ wk = [w \in Workers |-> Idle]
    /\ env = Reliable
    /\ tracker = [up |-> TRUE, outages |-> 0]
    /\ log = <<>>
    /\ \E body \in EditBodies, ok \in BOOLEAN : call = EditCall(body, ok)

\* table.update_item(Key, UpdateExpression = SET ..., ReturnValues = ALL_NEW)
\* with no ConditionExpression: the item is created when the key is not there
ChunkUpdateItem(table, chunk_id, key, set) ==
    LET held == {i \in table : i.chunk_id = chunk_id /\ i.file_key = key}
        old == IF held = {} THEN [chunk_id |-> chunk_id, file_key |-> key]
               ELSE CHOOSE i \in held : TRUE
        new == [k \in DOMAIN old \cup DOMAIN set |->
                   IF k \in DOMAIN set THEN set[k] ELSE old[k]]
    IN (table \ held) \cup {new}

\* lines 132-224; ok: update_item does not fail
UpdateChunk ==
    LET body == call.body
        given == {k \in DOMAIN body.fields : Truthy(body.fields[k])}
        set == [k \in {"updated_at"} \cup DOMAIN body.fields |->
                   IF k = "updated_at" THEN UtcNow ELSE body.fields[k]]
    IN /\ call.fn = "update_chunk"
       /\ ~call.done
       /\ IF body.chunk_id = NoJob \/ body.file_key = NoKey
          THEN /\ call' = [call EXCEPT !.done = TRUE, !.status = 400,
                                       !.message = T("chunk_id and file_key are required")]
               /\ UNCHANGED chunkTable
          ELSE IF given = {}
          THEN /\ call' = [call EXCEPT !.done = TRUE, !.status = 400,
                                       !.message = T("At least one of text, summary, or title must be provided")]
               /\ UNCHANGED chunkTable
          ELSE IF ~call.ok
          THEN /\ call' = [call EXCEPT !.done = TRUE, !.status = 500,
                                       !.message = T("Failed to update chunk")]
               /\ UNCHANGED chunkTable
          ELSE /\ call' = [call EXCEPT !.done = TRUE, !.status = 200,
                                       !.message = T("Chunk updated successfully")]
               /\ chunkTable' = ChunkUpdateItem(chunkTable, body.chunk_id, body.file_key, set)
       /\ UNCHANGED <<jobs, s3, queue, uploads, uuids, counts, agentic, wk, env, tracker, log>>

NextChunkEdit == UpdateChunk

SpecChunkEdit == InitChunkEdit /\ [][NextChunkEdit]_vars

\* The storing loop of lambda_handler run alone for n chunks, every put_item
\* succeeding: writes are the _update_job_state calls it makes, in order.
MaxStored == 12     \* chunk counts 0..MaxStored, and 100
StoredCounts == (0..MaxStored) \cup {100}

StoringCall(n) ==
    [fn |-> "storing_loop", n |-> n, idx |-> 0, last_emitted_progress |-> 85,
     writes |-> <<>>]

InitStoring == Quiescent /\ \E n \in StoredCounts : call = StoringCall(n)

StoreStep ==
    /\ call.fn = "storing_loop"
    /\ call.idx < call.n
    /\ LET total == IF call.n > 1 THEN call.n ELSE 1
           pct == StoringPct(call.idx, total)
       IN call' = IF EmitsProgress(pct, call.last_emitted_progress, call.idx, total)
                  THEN [call EXCEPT !.idx = @ + 1,
                                    !.last_emitted_progress = pct,
                                    !.writes = Append(@, [state |-> "storing_chunks",
                                                          progress |-> pct,
                                                          stored_chunks |-> call.idx + 1])]
                  ELSE [call EXCEPT !.idx = @ + 1]
    /\ UNCHANGED <<jobs, chunkTable, s3, queue, uploads, uuids, counts, agentic, wk, env,
                   tracker, log>>

NextStoring == StoreStep

SpecStoring == InitStoring /\ [][NextStoring]_vars

\* _update_job_state called on its own: the job's item as it was (<<>>: there is
\* none), the keyword arguments that are not None, the extra attributes, and
\* whether update_item succeeds.
TrackerItems ==
    { <<>>,
      QueuedItem(1, "a.pdf"),
      [job_id |-> 1, file_key |-> "a.pdf", file_name |-> "a.pdf", state |-> "storing_chunks",
       progress |-> 85, message |-> T("Upload received; queued for processing"),
       updated_at |-> UtcNow, textract_job_id |-> T("tx"), textract_line_count |-> 2,
       stored_chunks |-> 1] }

TrackerKeywords ==
    LET all == [state |-> "failed", progress |-> 90, message |-> ErrPut]
    IN {[k \in S |-> all[k]] : S \in SUBSET {"state", "progress", "message"}}

TrackerAttrs ==
    { <<>>,
      [stored_chunks |-> 2],
      [file_key |-> "b.pdf", chunk_count |-> 3],
      [progress |-> 5, textract_job_id |-> T("ty")],
      [updated_at |-> UploadTime] }

TrackerCall(item, kw, attrs, ok) ==
    [fn |-> "_update_job_state", item |-> item, kw |-> kw, attrs |-> attrs, ok |-> ok,
     done |-> FALSE, table |-> <<>>]

InitTracker ==
    /\ Quiescent
    /\ \E item \in TrackerItems, kw \in TrackerKeywords, attrs \in TrackerAttrs,
          ok \in BOOLEAN : call = TrackerCall(item, kw, attrs, ok)

CallTracker ==
    /\ call.fn = "_update_job_state"
    /\ ~call.done
    /\ LET table == IF call.item = <<>> THEN <<>> ELSE [j \in {1} |-> call.item]
       IN call' = [call EXCEPT !.done = TRUE,
                               !.table = _update_job_state(table, 1, call.kw, call.attrs,
                                                           call.ok).table]
    /\ UNCHANGED <<jobs, chunkTable, s3, queue, uploads, uuids, counts, agentic, wk, env,
                   tracker, log>>

NextTracker == CallTracker

SpecTracker == InitTracker /\ [][NextTracker]_vars

\* ------------------------------------------------------------ properties
Range(f) == {f[i] : i \in DOMAIN f}

Rank(st) ==
    CASE st = "received" -> 1
      [] st = "processing" -> 2
      [] st = "textract_started" -> 3
      [] st = "textract_polling" -> 4
      [] st = "textract_succeeded" -> 5
      [] st \in {"chunking_started", "chunking_started_naive"} -> 6
      [] st \in {"chunking_completed", "chunking_fallback_naive"} -> 7
      [] st = "storing_chunks" -> 8
      [] st = "completed" -> 9
      [] OTHER -> 0

\* C1: in one run the states the worker writes go forward only: received,
\* processing, textract_started, textract_polling (any number), textract_succeeded,
\* chunking_started or chunking_started_naive, chunking_completed or
\* chunking_fallback_naive, storing_chunks (repeated with the storing progress),
\* completed. Only failed is written outside this order, as the last write, and a
\* run that writes completed has written every non-repeating stage before it.
C1_ForwardOrder ==
    \A w \in Workers :
       LET t == wk[w].trace
       IN /\ \A i \in 1..Len(t) : t[i] = "failed" => i = Len(t)
          /\ \A i \in 1..Len(t) : t[i] # "failed" => Rank(t[i]) > 0
          /\ \A i, j \in 1..Len(t) :
                i < j /\ t[j] # "failed" =>
                   /\ Rank(t[i]) <= Rank(t[j])
                   /\ Rank(t[i]) = Rank(t[j]) =>
                         t[i] = t[j] /\ t[i] \in {"textract_polling", "storing_chunks"}
          /\ t # <<>> /\ t[Len(t)] = "completed" =>
                \A r \in {1, 2, 3, 5, 6, 7, 8} : \E i \in 1..Len(t) : Rank(t[i]) = r

C1_Witness ==
    \E w \in Workers :
       /\ wk[w].trace # <<>>
       /\ wk[w].trace[Len(wk[w].trace)] = "completed"
       /\ "textract_polling" \in Range(wk[w].trace)
       /\ Len(wk[w].puts) >= 2

\* C2 as claimed: once a job item's state is completed or failed, no later step
\* of an invocation of the worker changes it.
C2_TerminalStatesAreFinal ==
    [][\A j \in DOMAIN jobs :
          jobs[j].state \in {"completed", "failed"} => jobs'[j].state = jobs[j].state]_vars

\* C2 as amended: completed and failed end the run that writes them: after
\* writing either, that run makes no further Job Tracker write.
C2_TerminalWriteEndsRun ==
    [][\A w \in Workers :
          wk[w].last.state \in {"completed", "failed"} /\ wk'[w].run = wk[w].run
             => wk'[w].trace = wk[w].trace /\ wk'[w].last = wk[w].last]_vars

C2_Witness ==
    \E w \in Workers :
       /\ wk[w].pc = "raised"
       /\ wk[w].last.state = "failed"
       /\ wk[w].last.ok
       /\ \E i \in 1..Len(queue) : queue[i].rc = 2

\* C3 as claimed: a PermissionError from the language model is fatal: no naive
\* fallback, no chunk written, the run ends in the except clause.
C3_PermissionDeniedIsFatal ==
    \A w \in Workers :
       wk[w].denied =>
          /\ wk[w].pc \in {"except", "raised"}
          /\ wk[w].puts = <<>>
          /\ Range(wk[w].trace) \cap {"chunking_fallback_naive", "storing_chunks",
                                      "completed"} = {}

\* C4 as claimed: when a record's processing has raised, the handler has written
\* failed, with the error's text, to that record's job (and, when the record
\* names no job, to no job at all) before re-raising.
C4_FailedWrittenToRecordsJob ==
    \A w \in Workers :
       wk[w].pc = "raised" =>
          IF wk[w].rec_job = NoJob THEN wk[w].last.state = ""
          ELSE /\ wk[w].last.state = "failed"
               /\ wk[w].last.job_id = wk[w].rec_job
               /\ wk[w].last.message = wk[w].err

\* C5: whether a run raises, and with what, is decided by the faults of the
\* queue message, Textract and the chunk table alone, and the chunk records a run
\* has put are the chunker's output, in order, up to where the run stands: no
\* failed Job Tracker write changes either.
C5_TrackerFailuresChangeNothing ==
    \A w \in Workers :
       LET l == wk[w]
       IN /\ l.pc \in {"except", "raised"} => l.fault # NoErr /\ l.err = l.fault
          /\ l.pc \in {"record_done", "returned"} => l.fault = NoErr
          /\ l.pc = "record_done" => Len(l.puts) = Len(l.chunks)
          /\ l.pc = "put" => Len(l.puts) = l.idx
          /\ l.chunks # <<>> =>
                /\ Len(l.puts) <= Len(l.chunks)
                /\ \A i \in 1..Len(l.puts) : l.puts[i].text = l.chunks[i].text
          /\ l.fault = ErrPut => l.pc \in {"except", "raised"}

C5_Witness ==
    \E w \in Workers :
       /\ wk[w].pc = "record_done"
       /\ wk[w].tracker_failed
       /\ ~wk[w].last.ok
       /\ Len(wk[w].puts) >= 2

\* C6: the poll loop ends: a run polls at most max_wait / PollSleep + 1 times and
\* is never still polling once max_wait has passed; the timeout raises, the
\* handler asks the Job Tracker for failed with the timeout message (and the item
\* shows it when the table took the write) and re-raises.
C6_PollLoopTimesOut ==
    \A w \in Workers :
       LET l == wk[w]
       IN /\ l.polls <= env.max_wait \div PollSleep + 1
          /\ l.pc = "poll" => l.elapsed <= env.max_wait /\ l.polls * PollSleep <= l.elapsed
          /\ l.fault = ErrTimeout =>
                /\ l.pc \in {"except", "raised"}
                /\ l.elapsed > env.max_wait
          /\ l.fault = ErrTimeout /\ l.pc = "raised" =>
                /\ l.last.state = "failed"
                /\ l.last.message = ErrTimeout
                /\ l.last.job_id = l.rec_job
                /\ l.last.ok => /\ jobs[l.rec_job].state = "failed"
                                /\ jobs[l.rec_job].message = ErrTimeout

C6_Witness ==
    \E w \in Workers :
       /\ wk[w].pc = "raised"
       /\ wk[w].fault = ErrTimeout
       /\ wk[w].polls = env.max_wait \div PollSleep + 1
       /\ wk[w].last.ok

LogItems == {log[i].item : i \in 1..Len(log)}

\* C7: the chunk table is the disjoint union of what the runs have put: every
\* put_item used a chunk_id no other put used, and every item ever put is still
\* in the table as it was written.
C7_ChunkRecordsNeverOverwritten ==
    /\ chunkTable = LogItems
    /\ Cardinality(chunkTable) = Len(log)
    /\ \A i, j \in 1..Len(log) : i # j => log[i].item.chunk_id # log[j].item.chunk_id

\* two runs for the same file whose puts interleave
C7_Witness ==
    \E i, j, k \in 1..Len(log) :
       /\ i < j /\ j < k
       /\ log[i].run = log[k].run
       /\ log[i].run # log[j].run
       /\ log[i].item.file_key = log[j].item.file_key

ItemsOfJob(j) == {log[i].item : i \in {n \in 1..Len(log) : log[n].job_id = j}} \cap chunkTable

\* C8 as claimed: processing a job descriptor again leaves the chunk records of one
\* complete processing: when a run completes, the file's records are that run's.
C8_ChunkWriterIdempotent ==
    \A w \in Workers :
       wk[w].pc = "record_done" =>
          Cardinality({it \in chunkTable : it.file_key = wk[w].key}) = Len(wk[w].puts)

\* C8 as amended: every processing of a job descriptor adds its own records and
\* removes none: when a run completes, the job has that run's records and every
\* record put by its earlier attempts, complete or partial.
C8_RedeliveryAppends ==
    \A w \in Workers :
       wk[w].pc = "record_done" =>
          Cardinality(ItemsOfJob(wk[w].job_id)) =
             Len(wk[w].puts)
             + Cardinality({n \in 1..Len(log) :
                               log[n].job_id = wk[w].job_id /\ log[n].run # wk[w].run})

C8_Witness ==
    \E w \in Workers :
       /\ wk[w].pc = "record_done"
       /\ Len(wk[w].puts) >= 2
       /\ \E n \in 1..Len(log) : log[n].job_id = wk[w].job_id /\ log[n].run # wk[w].run

\* C9 as claimed: from the queued item at progress 0 on, through the writes of a
\* redelivered run, no write lowers the progress of a job item.
C9_ProgressNeverDecreases ==
    [][\A j \in DOMAIN jobs :
          "progress" \in DOMAIN jobs[j] => jobs'[j].progress >= jobs[j].progress]_vars

\* C9 as amended: every write leaves progress an integer in 0..100, and within
\* one run every write that sets it sets a value not below the run's previous one.
C9_ProgressMonotoneWithinRun ==
    [][/\ \A j \in DOMAIN jobs' :
             "progress" \in DOMAIN jobs'[j] => jobs'[j].progress \in 0..100
       /\ \A w \in Workers :
             wk'[w].run = wk[w].run /\ wk'[w].last.progress # -1
                => wk'[w].last.progress >= wk[w].last.progress]_vars

C9_Witness ==
    \E w \in Workers :
       /\ wk[w].last.progress = 98
       /\ wk[w].idx = 2
       /\ \E i \in 1..Len(queue) : queue[i].rc = 2

\* C10 as claimed: once a job item has left queued it is never queued again, and
\* no attribute it has is erased.
C10_QueuedOnlyBeforeWorker ==
    [][\A j \in DOMAIN jobs :
          jobs[j].state # "queued" =>
             /\ jobs'[j].state # "queued"
             /\ DOMAIN jobs[j] \subseteq DOMAIN jobs'[j]]_vars

CountIn(t, S) == Cardinality({i \in 1..Len(t) : t[i] \in S})

\* C11: with agentic chunking disabled the chunks are the naive chunker's and no
\* language-model call is made; with it enabled the agentic chunker is called
\* first: when it returns, its result is kept and chunking_completed is written;
\* when it raises, the chunks are the naive chunker's on the extracted lines and
\* chunking_fallback_naive is written instead. A run that has written
\* storing_chunks has written exactly one of the two.
C11_ChunkerSelection ==
    \A w \in Workers :
       LET l == wk[w]
           naive == chunk_text_with_offsets(l.lines, DefaultChunkSize, DefaultOverlap)
       IN /\ ~agentic => l.llm_calls = 0
          /\ l.pc = "storing" /\ ~agentic =>
                /\ l.chunks = naive
                /\ l.last.state = "chunking_completed"
                /\ "chunking_started_naive" \in Range(l.trace)
          /\ l.pc = "storing" /\ agentic =>
                /\ l.llm_calls >= 1
                /\ "chunking_started" \in Range(l.trace)
                /\ IF l.denied
                   THEN l.chunks = naive /\ l.last.state = "chunking_fallback_naive"
                   ELSE /\ l.last.state = "chunking_completed"
                        /\ \E r1 \in ExtractReplies : \E r2 \in ClusterRepliesFor(l.lines, r1) :
                              agentic_chunk_text(l.lines, r1, r2) =
                                 [raised |-> FALSE, calls |-> l.llm_calls, chunks |-> l.chunks]
          /\ "storing_chunks" \in Range(l.trace) =>
                CountIn(l.trace, {"chunking_completed", "chunking_fallback_naive"}) = 1

C11_Witness ==
    \E w \in Workers :
       /\ wk[w].pc = "storing"
       /\ agentic
       /\ ~wk[w].denied
       /\ wk[w].llm_calls = 2
       /\ wk[w].chunks # <<>>
       /\ Get(wk[w].chunks[1], "title") = <<"T">>

\* chunk_count of job j in table tbl, -1 when the item or the attribute is absent
ChunkCount(tbl, j) ==
    IF j \in DOMAIN tbl /\ "chunk_count" \in DOMAIN tbl[j] THEN tbl[j].chunk_count ELSE -1

\* what a run has stored is the chunker's output so far, in order, and is in the table
StoredInOrder(l) ==
    /\ Len(l.puts) <= Len(l.chunks) \/ l.chunks = <<>>
    /\ \A i \in 1..Len(l.puts) :
          /\ l.chunks # <<>> => l.puts[i].text = Get(l.chunks[i], "text")
          /\ l.puts[i] \in chunkTable

CompletedRight ==
    \A w \in Workers :
       LET l == wk[w]
       IN /\ StoredInOrder(l)
          /\ l.pc = "record_done" =>
                /\ l.last.state = "completed"
                /\ Len(l.puts) = Len(l.chunks)
          /\ l.fault = ErrPut => "completed" \notin Range(l.trace)

\* C12: chunk_count is set only in a step that writes completed, to the number
\* of chunks the chunker produced, all of them stored in the chunker's order by
\* then; a run whose put_item failed never writes completed, and what it had
\* stored stays in the table.
C12_ChunkCountOnCompletion ==
    [][/\ CompletedRight'
       /\ \A w \in Workers :
             wk'[w].trace # wk[w].trace /\ wk'[w].last.state = "completed" /\ wk'[w].last.ok =>
                /\ jobs'[wk'[w].job_id].state = "completed"
                /\ ChunkCount(jobs', wk'[w].job_id) = Len(wk'[w].chunks)
       /\ \A j \in DOMAIN jobs' :
             ChunkCount(jobs', j) \notin {-1, ChunkCount(jobs, j)} =>
                \E w \in Workers :
                   /\ wk'[w].trace # wk[w].trace
                   /\ wk'[w].last.state = "completed"
                   /\ wk'[w].job_id = j
                   /\ ChunkCount(jobs', j) = Len(wk'[w].puts)]_vars

C12_Witness ==
    \E w \in Workers :
       /\ wk[w].pc = "record_done"
       /\ wk[w].last.ok
       /\ ChunkCount(jobs, wk[w].job_id) = 2
       /\ Cardinality(chunkTable) > 2

ChunkerDone == call.fn = "chunk_text_with_offsets" /\ call.done

\* C13 as claimed: no chunk the naive chunker returns has a text longer than
\* chunk_size + overlap.
C13_ChunkTextBounded ==
    ChunkerDone =>
       \A i \in 1..Len(call.out) : Len(call.out[i].text) <= call.chunk_size + call.overlap

\* t occurs in s as a contiguous part
Contains(s, t) == \E k \in 0..(Len(s) - Len(t)) : SubSeq(s, k + 1, k + Len(t)) = t
StartsWith(s, t) == Len(t) <= Len(s) /\ SubSeq(s, 1, Len(t)) = t

\* each of texts occurs in a chunk, the chunks taken in non-decreasing order from from
RECURSIVE CoveredFrom(_, _, _)
CoveredFrom(texts, chunks, from) ==
    IF texts = <<>> THEN TRUE
    ELSE LET ks == {k \in from..Len(chunks) : Contains(chunks[k].text, Head(texts))}
         IN /\ ks # {}
            /\ CoveredFrom(Tail(texts), chunks, CHOOSE k \in ks : \A m \in ks : k <= m)

\* C14 as claimed: every line's text occurs, in input order, as a contiguous part
\* of the text of some returned chunk.
C14_EveryLineCovered ==
    ChunkerDone =>
       CoveredFrom([i \in 1..Len(call.lines) |-> call.lines[i].text], call.out, 1)

\* C14 as amended: every line's text with its leading and trailing whitespace
\* removed, when that is not empty, occurs, in input order, as a contiguous part
\* of the text of some returned chunk.
C14_EveryStrippedLineCovered ==
    ChunkerDone =>
       CoveredFrom(StripNonEmpty([i \in 1..Len(call.lines) |-> call.lines[i].text]),
                   call.out, 1)

C14_Witness ==
    /\ ChunkerDone
    /\ Len(call.out) >= 2
    /\ \E i \in 1..Len(call.lines) : call.lines[i].text = <<"b", " ">>
    /\ \E i \in 1..Len(call.lines) : call.lines[i].text = <<"a", "b", "c", "d">>

\* the last n characters of s, all of s when it is shorter
Trailing(s, n) == SubSeq(s, (IF Len(s) > n THEN Len(s) - n ELSE 0) + 1, Len(s))

\* C15 as claimed: with overlap > 0, the text of the chunk after one that was
\* closed for size begins with the trailing overlap characters of that chunk.
C15_OverlapCarriedOver ==
    ChunkerDone /\ call.overlap > 0 =>
       \A i \in 1..(Len(call.out) - 1) :
          StartsWith(call.out[i + 1].text, Trailing(call.out[i].text, call.overlap))

\* C15 as amended: it begins with those characters less their leading whitespace;
\* in the three-sentence example a chunk is closed before the end of the input
\* and its last 5 characters start the next one.
C15_OverlapCarriedOverStripped ==
    /\ ChunkerDone /\ call.overlap > 0 =>
          \A i \in 1..(Len(call.out) - 1) :
             StartsWith(call.out[i + 1].text,
                        LStrip(Trailing(call.out[i].text, call.overlap)))
    /\ ChunkerDone /\ call.lines = ExampleLines =>
          /\ Len(call.out) = 2
          /\ StartsWith(call.out[2].text, <<"l", "l", "o", "w", ".", " ", "A">>)
          /\ Trailing(call.out[1].text, 5) = <<"l", "l", "o", "w", ".">>

C15_Witness ==
    /\ ChunkerDone
    /\ call.overlap > 0
    /\ Len(call.out) >= 2
    /\ \E i \in 1..(Len(call.out) - 1) :
          /\ Len(call.out[i].text) >= call.overlap
          /\ Head(Trailing(call.out[i].text, call.overlap)) = " "
          /\ Len(call.out[i + 1].text) > call.overlap

AgenticDone == call.fn = "agentic_chunk_text" /\ call.done

\* C16 as claimed: when every language-model call raises a non-permission error,
\* agentic_chunk_text returns what chunk_text_with_offsets returns for the same
\* lines with the default parameters: the same texts, starts, ends and pages.
C16_FallbackEqualsNaive ==
    AgenticDone /\ call.r1.kind = "error" =>
       /\ ~call.out.raised
       /\ call.out.chunks = chunk_text_with_offsets(call.lines, DefaultChunkSize,
                                                    DefaultOverlap)

\* C17: a permission error at the extraction call, or at the clustering call when
\* it is made, leaves agentic_chunk_text by the raise: no chunk list is returned,
\* and after an extraction-stage error there was one language-model call only.
C17_PermissionErrorPropagates ==
    AgenticDone =>
       /\ call.r1.kind = "denied" =>
             call.out.raised /\ call.out.chunks = <<>> /\ call.out.calls = 1
       /\ call.r1.kind # "denied" /\ call.r2.kind = "denied"
             /\ AgenticPropositions(call.lines, call.r1) # <<>> =>
             call.out.raised /\ call.out.chunks = <<>> /\ call.out.calls = 2
       /\ call.out.raised => call.r1.kind = "denied" \/ call.r2.kind = "denied"

C17_Witness ==
    /\ AgenticDone
    /\ call.r1.kind = "ok"
    /\ call.r2.kind = "denied"
    /\ Len(call.lines) >= 2
    /\ call.out.raised

\* the percentage after i of n chunks, from 85 to 98
ScaledPct(i, n) == 85 + (i * 13) \div n

\* C18: while n chunks are stored, a write is made after chunk i exactly when the
\* percentage has gained 3 points or more on the last one written (85 at the
\* start), or i is a multiple of 10, or i = n; it carries that percentage and
\* stored_chunks = i. After the last chunk the last write has progress 98 and
\* stored_chunks = n, and 100 chunks make 10 writes.
C18_ProgressThrottled ==
    call.fn = "storing_loop" =>
       LET w == call.writes
           n == call.n
           Prev(k) == IF k = 1 THEN 85 ELSE w[k - 1].progress
           Written == {w[k].stored_chunks : k \in 1..Len(w)}
           LastBefore(i) ==
               LET ks == {k \in 1..Len(w) : w[k].stored_chunks < i}
               IN IF ks = {} THEN 85 ELSE w[CHOOSE k \in ks : \A m \in ks : m <= k].progress
           Due(i) == \/ ScaledPct(i, n) - LastBefore(i) >= 3
                     \/ i % 10 = 0
                     \/ i = n
       IN /\ \A k \in 1..Len(w) :
                /\ w[k].progress = ScaledPct(w[k].stored_chunks, n)
                /\ k > 1 => w[k - 1].stored_chunks < w[k].stored_chunks
          /\ \A i \in 1..call.idx : i \in Written <=> Due(i)
          /\ Written \subseteq 1..call.idx
          /\ call.idx = n /\ n >= 1 =>
                w[Len(w)].progress = 98 /\ w[Len(w)].stored_chunks = n
          /\ call.idx = n /\ n = 100 => Len(w) = 10

C18_Witness ==
    /\ call.fn = "storing_loop"
    /\ call.n = 100
    /\ call.idx = call.n
    /\ Len(call.writes) = 10
    /\ \E k \in 1..Len(call.writes) : call.writes[k].stored_chunks % 10 # 0
                                      \/ call.writes[k].progress = 98

RECURSIVE Flatten(_)
Flatten(pages) == IF pages = <<>> THEN <<>> ELSE Head(pages) \o Flatten(Tail(pages))

\* the LINE blocks of a document, page after page, as text and page number
IsLine(b) == b.BlockType = "LINE"
LinesOfDocument(doc) ==
    LET bs == SelectSeq(Flatten(doc), IsLine)
    IN [i \in 1..Len(bs) |-> [text |-> bs[i].Text,
                              page |-> IF bs[i].Page = 0 THEN 1 ELSE bs[i].Page]]

\* what the poller returned, when it has returned
PollerReturned(w) ==
    /\ wk[w].pc = "chunking"
    /\ wk[w].lines = LinesOfDocument(s3[wk[w].key])
    /\ wk[w].last.state = "textract_succeeded"
    /\ wk[w].last.progress = 60
    /\ wk[w].last.ok =>
          jobs[wk[w].job_id].textract_line_count = Len(LinesOfDocument(s3[wk[w].key]))

\* C19 as claimed: k still-running replies with 5 * k <= max_wait are never
\* answered by a timeout, and after SUCCEEDED the poller returns the LINE blocks
\* of all result pages in page then block order, each with its page number (1
\* when absent), and the textract_succeeded heartbeat carries their count.
C19_PollerSucceeds ==
    \A w \in Workers :
       /\ wk[w].fault = ErrTimeout => PollSleep * wk[w].polls > env.max_wait
       /\ wk[w].pc = "chunking" => PollerReturned(w)

\* C19 as amended: the calls take time too. k still-running replies are never
\* answered by a timeout while the time elapsed after each sleep, which is 5 * k
\* or more, does not exceed max_wait; SUCCEEDED is never answered by a raise, and
\* the poller then returns as claimed.
C19_PollerSucceedsInTime ==
    [][\A w \in Workers :
          /\ wk'[w].fault = ErrTimeout =>
                wk'[w].elapsed > env.max_wait /\ wk'[w].elapsed >= PollSleep * wk'[w].polls
          /\ wk[w].pc = "gather" /\ wk'[w].pc # "gather" => PollerReturned(w)'
          /\ wk'[w].pc = "chunking" => PollerReturned(w)'
          /\ wk[w].pc = "poll" /\ wk'[w].pc = "poll" =>
                wk'[w].elapsed <= env.max_wait]_vars

C19_Witness ==
    /\ wk["w1"].pc = "chunking"
    /\ wk["w1"].polls = 3
    /\ Len(wk["w1"].lines) = 3
    /\ wk["w1"].last.ok

\* C20: a call of _update_job_state leaves every attribute of the item that is
\* neither supplied in the call nor updated_at as it was, and removes none; when
\* update_item succeeds the item has the state, progress and message supplied,
\* the extra attributes supplied under other names, and a new updated_at; when
\* it fails the item is as it was.
C20_PartialUpdate ==
    call.fn = "_update_job_state" /\ call.done =>
       LET old == call.item
           new == IF 1 \in DOMAIN call.table THEN call.table[1] ELSE <<>>
           supplied == DOMAIN call.kw \cup DOMAIN call.attrs
       IN /\ DOMAIN old \subseteq DOMAIN new
          /\ \A k \in DOMAIN new \ (supplied \cup {"updated_at"}) :
                k \in DOMAIN old /\ new[k] = old[k]
          /\ call.ok =>
                /\ new.updated_at = UtcNow
                /\ \A k \in DOMAIN call.kw \ {"message"} : new[k] = call.kw[k]
                /\ \A k \in DOMAIN call.attrs \ Reserved : new[k] = call.attrs[k]
          /\ ~call.ok => DOMAIN new = DOMAIN old /\ \A k \in DOMAIN old : new[k] = old[k]

C20_Witness ==
    /\ call.fn = "_update_job_state"
    /\ call.done
    /\ call.ok
    /\ DOMAIN call.kw = {"state"}
    /\ DOMAIN call.attrs = {"stored_chunks"}
    /\ call.item # <<>>
    /\ call.table[1].state = "failed"
    /\ call.table[1].progress = 0
    /\ call.table[1].message = T("Upload received; queued for processing")
    /\ call.table[1].file_key = "a.pdf"
    /\ call.table[1].updated_at = UtcNow

\* the job's item, <<>> when there is none
ItemOf(tbl, j) == IF j \in DOMAIN tbl THEN tbl[j] ELSE <<>>

\* C21 as claimed: the write the except clause makes goes to the job of the
\* record that raised: handling a record's error changes the item of no other
\* job, and changes no item at all when the record's job_id was never read.
C21_FailedWriteTargetsOwnJob ==
    [][\A w \in Workers :
          wk[w].pc = "except" /\ wk'[w].pc = "raised" =>
             \A j \in DOMAIN jobs' :
                j # wk[w].rec_job => j \in DOMAIN jobs /\ jobs'[j] = jobs[j]]_vars

\* the time, counted from the start of the poll loop, of the poller's last
\* heartbeat: textract_started is written as the loop starts
LastHeartbeatAt(l) ==
    IF l.trace # <<>> /\ l.trace[Len(l.trace)] = "textract_polling"
    THEN l.last_progress_update_ts - Epoch
    ELSE 0

\* C22 as claimed: a textract_polling heartbeat is emitted only when more than
\* HeartbeatGap time units have passed since the poller's previous heartbeat,
\* textract_started or textract_polling.
C22_HeartbeatsThrottled ==
    [][\A w \in Workers :
          /\ wk[w].pc = "poll"
          /\ Len(wk'[w].trace) = Len(wk[w].trace) + 1
          /\ wk'[w].last.state = "textract_polling"
          => wk'[w].elapsed - LastHeartbeatAt(wk[w]) > HeartbeatGap]_vars

\* C23 as claimed: the document text in the proposition-extraction request is
\* the first PromptTextLimit characters of full_text at most.
C23_PromptTextCut ==
    call.fn = "extract_propositions_from_text" /\ call.done =>
       /\ Len(call.prompt_text) <= PromptTextLimit
       /\ call.prompt_text = SubSeq(call.full_text, 1, Len(call.prompt_text))

\* what the naive sentence splitter makes of the lines' text
NaivePropositions(lines) ==
    FirstChars(NaiveSentences(SplitLines(FullText(lines), <<>>)), NaivePropositionCap)

\* C24 as claimed: after an extraction call that raised a non-permission error
\* or gave a reply that does not parse, the pipeline goes on with the naive
\* sentence splitter's propositions, and when there are any the clustering call
\* is made.
C24_ExtractionFallsBackToSplitter ==
    AgenticDone /\ call.r1.kind \in {"error", "garbage"} =>
       /\ AgenticPropositions(call.lines, call.r1) = NaivePropositions(call.lines)
       /\ NaivePropositions(call.lines) # <<>> => call.out.calls = 2

\* the reply holds no cluster with a proposition in it
NoValidCluster(reply) ==
    \/ reply.kind \in {"error", "garbage"}
    \/ /\ reply.kind = "ok"
       /\ \A i \in 1..Len(reply.value) :
             StripNonEmpty(Get(reply.value[i], "propositions")) = <<>>

\* C25 as claimed: for a non-empty list, a clustering stage that recovers no
\* valid cluster (a reply that does not parse or has no cluster with
\* propositions, or a model error that is not a permission error) returns one
\* cluster titled General with all the propositions given, in order; for an
\* empty list it returns nothing and calls no model.
C25_ClusteringFallsBackToGeneral ==
    call.fn = "cluster_propositions_agentically" /\ call.done =>
       /\ call.propositions # <<>> /\ NoValidCluster(call.reply) =>
             /\ ~call.raised
             /\ Len(call.out) = 1
             /\ call.out[1].title = <<"General">>
             /\ call.out[1].propositions = call.propositions
       /\ call.propositions = <<>> => call.out = <<>> /\ call.calls = 0 /\ ~call.raised

\* where a run stands once a status poll has answered FAILED
FailedEndsRun(w) ==
    wk[w].fault = ErrFailed =>
       /\ wk[w].pc \in {"except", "raised"}
       /\ wk[w].err = ErrFailed
       /\ wk[w].puts = <<>>
       /\ Range(wk[w].trace) \cap {"textract_succeeded", "chunking_started",
                                   "chunking_started_naive", "storing_chunks",
                                   "completed"} = {}
       /\ wk[w].pc = "raised" =>
             /\ wk[w].last.state = "failed"
             /\ wk[w].last.message = ErrFailed
             /\ wk[w].last.job_id = wk[w].rec_job
             /\ wk[w].last.ok => jobs[wk[w].rec_job].state = "failed"

\* C26: a status poll that answers FAILED raises at once: the run polls no more,
\* collects no result page, writes no textract_succeeded heartbeat and no chunk
\* record, asks the Job Tracker for failed with the error's text (the item shows
\* failed when the table took the write) and re-raises.
C26_FailedStatusRaisesAtOnce ==
    [][\A w \in Workers :
          /\ FailedEndsRun(w)'
          /\ wk[w].fault = ErrFailed /\ wk'[w].fault = ErrFailed =>
                /\ wk'[w].polls = wk[w].polls
                /\ chunkTable' = chunkTable
                /\ wk'[w].lines = wk[w].lines]_vars

C26_Witness ==
    /\ wk["w1"].pc = "raised"
    /\ wk["w1"].fault = ErrFailed
    /\ wk["w1"].polls = 2
    /\ wk["w1"].last.ok
    /\ jobs[1].state = "failed"
    /\ jobs[1].message = ErrFailed

\* C27 as claimed: the start offsets and the end offsets of the chunks the naive
\* chunker returns are each non-decreasing from one chunk to the next.
C27_OffsetsNonDecreasing ==
    ChunkerDone =>
       \A i \in 1..(Len(call.out) - 1) :
          /\ call.out[i].start <= call.out[i + 1].start
          /\ call.out[i].end <= call.out[i + 1].end

\* C28 as claimed: the naive chunker returns no chunk whose text is empty.
C28_NoEmptyChunk ==
    ChunkerDone => \A i \in 1..Len(call.out) : call.out[i].text # <<>>

\* the progress values a write of each state may carry (-1: none)
ProgressBand(st) ==
    CASE st = "received" -> {5}
      [] st = "processing" -> {10}
      [] st = "textract_started" -> {20}
      [] st = "textract_polling" -> 20..55
      [] st = "textract_succeeded" -> {60}
      [] st \in {"chunking_started", "chunking_started_naive"} -> {65}
      [] st = "chunking_fallback_naive" -> {75}
      [] st = "chunking_completed" -> {80}
      [] st = "storing_chunks" -> 85..98
      [] st = "completed" -> {100}
      [] st = "failed" -> {-1}
      [] OTHER -> {}

\* C29: every write of a run carries a progress inside the band of its state and
\* not below the progress of the run's previous write; 100 comes with completed
\* only; the failed write carries no progress and leaves the item's as it was.
C29_ProgressInBand ==
    [][\A w \in Workers :
          wk'[w].trace # wk[w].trace /\ wk'[w].trace # <<>> =>
             LET st == wk'[w].last.state
                 p == wk'[w].last.progress
                 j == wk'[w].last.job_id
             IN /\ p \in ProgressBand(st)
                /\ p # -1 /\ wk'[w].run = wk[w].run => p >= wk[w].last.progress
                /\ p # -1 /\ wk'[w].last.ok => jobs'[j].progress = p
                /\ st = "failed" /\ j \in DOMAIN jobs =>
                      jobs'[j].progress = jobs[j].progress]_vars

C29_Witness ==
    /\ wk["w1"].pc = "record_done"
    /\ wk["w1"].last.progress = 100
    /\ CountIn(wk["w1"].trace, {"textract_polling"}) = 2
    /\ CountIn(wk["w1"].trace, {"storing_chunks"}) >= 3

ChunkKeys(table) == {[chunk_id |-> i.chunk_id, file_key |-> i.file_key] : i \in table}

\* C30 as claimed: update_chunk creates no chunk record: for a chunk_id and
\* file_key the table does not hold, a request that is otherwise well formed is
\* answered 404 and leaves the table as it was; the keys of the table are the
\* same after every call.
C30_UpdateNeverCreates ==
    [][call.fn = "update_chunk" /\ ~call.done /\ call'.done =>
          /\ ChunkKeys(chunkTable') = ChunkKeys(chunkTable)
          /\ /\ call.ok
             /\ call.body.chunk_id # NoJob
             /\ call.body.file_key # NoKey
             /\ \E k \in DOMAIN call.body.fields : Truthy(call.body.fields[k])
             /\ [chunk_id |-> call.body.chunk_id, file_key |-> call.body.file_key]
                   \notin ChunkKeys(chunkTable)
             => call'.status = 404 /\ chunkTable' = chunkTable]_vars

====
